---- MODULE Spec2Model ----
(***************************************************************************)
(* A model of seabird-nwwsio-plugin: the subscription store                *)
(* (src/subscriptions.go, SubscriptionManager), the product identifier     *)
(* parsers (src/internal/nwwsio.go and the product catalog), the alert     *)
(* decoder, and the ingestion path handleMessage of the client             *)
(* (src/unnamed/part_006), which runs concurrently with the commands that  *)
(* change the store.                                                       *)
(*                                                                         *)
(* Go strings are TLA+ strings: TLC evaluates Len, SubSeq and \o on them,  *)
(* so slicing, trimming, splitting, case conversion and Sprintf are        *)
(* computed character by character as the code computes them.  A Go map    *)
(* is a function whose DOMAIN is the set of keys present.                  *)
(***************************************************************************)
EXTENDS Integers, Sequences, FiniteSets, TLC

\* ------------------------------------------------------------ strings

LowerLetters == "abcdefghijklmnopqrstuvwxyz"
UpperLetters == "ABCDEFGHIJKLMNOPQRSTUVWXYZ"
Digits == "0123456789"
WhiteSpace == {" ", "\n", "\t", "\r"}

CharAt(s, i) == SubSeq(s, i, i)

\* the first position of the one-character string c in s, 0 when absent
IndexOfChar(c, s) ==
    IF \E i \in 1..Len(s) : CharAt(s, i) = c
    THEN CHOOSE i \in 1..Len(s) :
            /\ CharAt(s, i) = c
            /\ \A j \in 1..(i - 1) : CharAt(s, j) # c
    ELSE 0

\* the letter tables: each lower-case letter with its upper-case letter
UpperOf == [c \in {CharAt(LowerLetters, i) : i \in 1..26} |->
               CharAt(UpperLetters, IndexOfChar(c, LowerLetters))]
LowerOf == [c \in {CharAt(UpperLetters, i) : i \in 1..26} |->
               CharAt(LowerLetters, IndexOfChar(c, UpperLetters))]
DigitOf == [c \in {CharAt(Digits, i) : i \in 1..10} |-> IndexOfChar(c, Digits) - 1]

UpperChar(c) == IF c \in DOMAIN UpperOf THEN UpperOf[c] ELSE c

LowerChar(c) == IF c \in DOMAIN LowerOf THEN LowerOf[c] ELSE c

RECURSIVE ToUpper(_)
ToUpper(s) ==
    IF Len(s) = 0 THEN s ELSE UpperChar(CharAt(s, 1)) \o ToUpper(SubSeq(s, 2, Len(s)))

RECURSIVE ToLower(_)
ToLower(s) ==
    IF Len(s) = 0 THEN s ELSE LowerChar(CharAt(s, 1)) \o ToLower(SubSeq(s, 2, Len(s)))

RECURSIVE TrimLeft(_)
TrimLeft(s) ==
    IF Len(s) > 0 /\ CharAt(s, 1) \in WhiteSpace
    THEN TrimLeft(SubSeq(s, 2, Len(s)))
    ELSE s

RECURSIVE TrimRight(_)
TrimRight(s) ==
    IF Len(s) > 0 /\ CharAt(s, Len(s)) \in WhiteSpace
    THEN TrimRight(SubSeq(s, 1, Len(s) - 1))
    ELSE s

TrimSpace(s) == TrimRight(TrimLeft(s))

\* strings.Contains
Contains(s, sub) ==
    \E i \in 1..(Len(s) - Len(sub) + 1) : SubSeq(s, i, i + Len(sub) - 1) = sub

\* strings.HasPrefix
HasPrefix(s, p) == Len(s) >= Len(p) /\ SubSeq(s, 1, Len(p)) = p

\* strings.Split(s, sep) for a one-character separator
RECURSIVE Split(_, _)
Split(s, sep) ==
    LET i == IndexOfChar(sep, s)
    IN  IF i = 0 THEN <<s>>
        ELSE <<SubSeq(s, 1, i - 1)>> \o Split(SubSeq(s, i + 1, Len(s)), sep)

RECURSIVE DigitsValue(_, _)
DigitsValue(s, acc) ==
    IF Len(s) = 0 THEN acc
    ELSE DigitsValue(SubSeq(s, 2, Len(s)), 10 * acc + DigitOf[CharAt(s, 1)])

AllDigits(s) == \A i \in 1..Len(s) : CharAt(s, i) \in DOMAIN DigitOf

\* strconv.Atoi: an optional sign, then one or more decimal digits
Atoi(s) ==
    LET signed == Len(s) > 0 /\ CharAt(s, 1) \in {"+", "-"}
        body == IF signed THEN SubSeq(s, 2, Len(s)) ELSE s
    IN  IF Len(body) = 0 \/ ~AllDigits(body)
        THEN [err |-> TRUE, val |-> 0]
        ELSE [err |-> FALSE,
              val |-> IF signed /\ CharAt(s, 1) = "-"
                      THEN 0 - DigitsValue(body, 0)
                      ELSE DigitsValue(body, 0)]

\* ---------------------------------------------------------- Go maps

EmptyMap == <<>>
MapGet(m, k, zero) == IF k \in DOMAIN m THEN m[k] ELSE zero
MapPut(m, k, v) == [x \in (DOMAIN m) \cup {k} |-> IF x = k THEN v ELSE m[x]]
MapDelete(m, k) == [x \in (DOMAIN m) \ {k} |-> m[x]]

\* s[:i] ++ s[i+1:], with i counted from 1
RemoveAt_Keep(s, i) == s

RemoveAt(s, i) == SubSeq(s, 1, i - 1) \o SubSeq(s, i + 1, Len(s))

\* ---------------------------------------------------- product catalog

\* DataTable: the T1 column and the data type of each row, in table order
DataTable ==
    << [T1 |-> "A", DataType |-> "Analyses"],
       [T1 |-> "B", DataType |-> "Addressed message"],
       [T1 |-> "C", DataType |-> "Climatic data"],
       [T1 |-> "D", DataType |-> "Grid point information (GRID)"],
       [T1 |-> "E", DataType |-> "Satellite imagery"],
       [T1 |-> "F", DataType |-> "Forecast"],
       [T1 |-> "G", DataType |-> "Grid point information (GRID)"],
       [T1 |-> "H", DataType |-> "Grid point information (GRIB)"],
       [T1 |-> "I", DataType |-> "Observational data (Binary coded) - BUFR"],
       [T1 |-> "J", DataType |-> "Forecast information (Binary coded) - BUFR"],
       [T1 |-> "K", DataType |-> "CREX"],
       [T1 |-> "L", DataType |-> "Aviation information in XML"],
       [T1 |-> "M", DataType |-> "-"],
       [T1 |-> "N", DataType |-> "Notices"],
       [T1 |-> "O", DataType |-> "Oceanographic information (GRIB)"],
       [T1 |-> "P", DataType |-> "Pictorial information (Binary coded)"],
       [T1 |-> "Q", DataType |-> "Pictorial information regional (Binary coded)"],
       [T1 |-> "R", DataType |-> "-"],
       [T1 |-> "S", DataType |-> "Surface data"],
       [T1 |-> "T", DataType |-> "Satellite data"],
       [T1 |-> "U", DataType |-> "Upper air data"],
       [T1 |-> "V", DataType |-> "National data"],
       [T1 |-> "W", DataType |-> "Warnings"],
       [T1 |-> "X", DataType |-> "Common Alert Protocol (CAP) messages"],
       [T1 |-> "Y", DataType |-> "GRIB regional use"],
       [T1 |-> "Z", DataType |-> "-"] >>

\* CommonProducts: product abbreviation -> name and category
CommonProducts ==
    [k \in {"AFD", "ZFP", "NOW", "FWF", "FWS", "PFM", "SFT", "TAF", "MET",
             "SAO", "FT", "AVG", "VFT", "TOR", "SVR", "FFW", "FFA", "SVS",
             "SPS", "WSW", "WWA", "CFW", "FLW", "WAR", "MWS", "MWW", "OFF",
             "CWF", "RRM", "RR", "RR1", "RR2", "RR3", "RR4", "RR5", "RR6",
             "RR7", "RR8", "RR9", "FLS", "HML", "CLI", "RTP", "RER", "LSR",
             "RWR", "PNS", "HWO", "RWS", "CAP", "AFM", "FHM", "NSH", "FWM"} |->
        CASE k = "AFD" -> [Name |-> "Area Forecast Discussion", Category |-> "Forecast"]
          [] k = "ZFP" -> [Name |-> "Zone Forecast Product", Category |-> "Forecast"]
          [] k = "NOW" -> [Name |-> "Short Term Forecast", Category |-> "Forecast"]
          [] k = "FWF" -> [Name |-> "Fire Weather Forecast", Category |-> "Fire Weather"]
          [] k = "FWS" -> [Name |-> "Fire Weather Outlook", Category |-> "Fire Weather"]
          [] k = "PFM" -> [Name |-> "Point Forecast Matrices", Category |-> "Forecast"]
          [] k = "SFT" -> [Name |-> "Tabular State Forecast", Category |-> "Forecast"]
          [] k = "TAF" -> [Name |-> "Terminal Aerodrome Forecast", Category |-> "Aviation"]
          [] k = "MET" -> [Name |-> "Routine Aviation Weather Report", Category |-> "Aviation"]
          [] k = "SAO" -> [Name |-> "Surface Aviation Observation", Category |-> "Aviation"]
          [] k = "FT" -> [Name |-> "Winds/Temps Aloft Forecast", Category |-> "Aviation"]
          [] k = "AVG" -> [Name |-> "Aviation Gridded Forecast", Category |-> "Aviation"]
          [] k = "VFT" -> [Name |-> "Terminal Forecast Tables", Category |-> "Aviation"]
          [] k = "TOR" -> [Name |-> "Tornado Warning", Category |-> "Warning"]
          [] k = "SVR" -> [Name |-> "Severe Thunderstorm Warning", Category |-> "Warning"]
          [] k = "FFW" -> [Name |-> "Flash Flood Warning", Category |-> "Warning"]
          [] k = "FFA" -> [Name |-> "Flash Flood Watch", Category |-> "Watch"]
          [] k = "SVS" -> [Name |-> "Severe Weather Statement", Category |-> "Statement"]
          [] k = "SPS" -> [Name |-> "Special Weather Statement", Category |-> "Statement"]
          [] k = "WSW" -> [Name |-> "Winter Storm Warning", Category |-> "Warning"]
          [] k = "WWA" -> [Name |-> "Watch Warning Advisory", Category |-> "Summary"]
          [] k = "CFW" -> [Name |-> "Coastal Flood Warning", Category |-> "Warning"]
          [] k = "FLW" -> [Name |-> "Flood Warning", Category |-> "Warning"]
          [] k = "WAR" -> [Name |-> "Space Weather Warning", Category |-> "Warning"]
          [] k = "MWS" -> [Name |-> "Marine Weather Statement", Category |-> "Marine"]
          [] k = "MWW" -> [Name |-> "Marine Weather Warning", Category |-> "Marine"]
          [] k = "OFF" -> [Name |-> "Offshore Forecast", Category |-> "Marine"]
          [] k = "CWF" -> [Name |-> "Coastal Waters Forecast", Category |-> "Marine"]
          [] k = "RRM" -> [Name |-> "Rainfall Storm Total", Category |-> "Hydrology"]
          [] k = "RR" -> [Name |-> "Hydrologic Data", Category |-> "Hydrology"]
          [] k = "RR1" -> [Name |-> "Hydrologic Data (1-hour)", Category |-> "Hydrology"]
          [] k = "RR2" -> [Name |-> "Hydrologic Data (2-hour)", Category |-> "Hydrology"]
          [] k = "RR3" -> [Name |-> "Hydrologic Data (3-hour)", Category |-> "Hydrology"]
          [] k = "RR4" -> [Name |-> "Hydrologic Data (4-hour)", Category |-> "Hydrology"]
          [] k = "RR5" -> [Name |-> "Hydrologic Data (5-hour)", Category |-> "Hydrology"]
          [] k = "RR6" -> [Name |-> "Hydrologic Data (6-hour)", Category |-> "Hydrology"]
          [] k = "RR7" -> [Name |-> "Hydrologic Data (7-hour)", Category |-> "Hydrology"]
          [] k = "RR8" -> [Name |-> "Hydrologic Data (8-hour)", Category |-> "Hydrology"]
          [] k = "RR9" -> [Name |-> "Hydrologic Data (9-hour)", Category |-> "Hydrology"]
          [] k = "FLS" -> [Name |-> "Flood Statement", Category |-> "Hydrology"]
          [] k = "HML" -> [Name |-> "Hydrologic Monitoring Statement", Category |-> "Hydrology"]
          [] k = "CLI" -> [Name |-> "Daily Climate Report", Category |-> "Climate"]
          [] k = "RTP" -> [Name |-> "Regional Temperature/Precipitation", Category |-> "Climate"]
          [] k = "RER" -> [Name |-> "Record Event Report", Category |-> "Climate"]
          [] k = "LSR" -> [Name |-> "Local Storm Report", Category |-> "Observation"]
          [] k = "RWR" -> [Name |-> "Regional Weather Roundup", Category |-> "Summary"]
          [] k = "PNS" -> [Name |-> "Public Information Statement", Category |-> "Public Info"]
          [] k = "HWO" -> [Name |-> "Hazardous Weather Outlook", Category |-> "Outlook"]
          [] k = "RWS" -> [Name |-> "Regional Weather Summary", Category |-> "Summary"]
          [] k = "CAP" -> [Name |-> "Common Alerting Protocol", Category |-> "Administrative"]
          [] k = "AFM" -> [Name |-> "Area Forecast Matrices", Category |-> "Forecast"]
          [] k = "FHM" -> [Name |-> "Forecast Hydrometeorological", Category |-> "Forecast"]
          [] k = "NSH" -> [Name |-> "Nearshore Marine Forecast", Category |-> "Marine"]
          [] k = "FWM" -> [Name |-> "Fire Weather Matrix", Category |-> "Fire Weather"]]

\* ------------------------------------------------- identifier parsers

\* NWWSOIMessageXExtension.GetSequenceID: "<process>.<counter>"
GetSequenceID(id) ==
    LET splitID == Split(id, ".")
    IN  IF Len(splitID) # 2
        THEN [err |-> TRUE, processName |-> "", sequenceID |-> 0]
        ELSE LET n == Atoi(splitID[2])
             IN  IF n.err
                 THEN [err |-> TRUE, processName |-> "", sequenceID |-> 0]
                 ELSE [err |-> FALSE, processName |-> splitID[1], sequenceID |-> n.val]

NoProductID == [T1 |-> "", T2 |-> "", A1 |-> "", A2 |-> "", II |-> ""]

ParseTtaaii_AtLeastSix(ttaaii) ==
    IF Len(ttaaii) < 6
    THEN [err |-> TRUE, id |-> NoProductID]
    ELSE [err |-> FALSE,
          id  |-> [T1 |-> CharAt(ttaaii, 1), T2 |-> CharAt(ttaaii, 2),
                   A1 |-> CharAt(ttaaii, 3), A2 |-> CharAt(ttaaii, 4),
                   II |-> SubSeq(ttaaii, 5, 6)]]

\* NWWSOIMessageXExtension.ParseTtaaii
ParseTtaaii(ttaaii) ==
    IF Len(ttaaii) # 6
    THEN [err |-> TRUE, id |-> NoProductID]
    ELSE [err |-> FALSE,
          id  |-> [T1 |-> CharAt(ttaaii, 1), T2 |-> CharAt(ttaaii, 2),
                   A1 |-> CharAt(ttaaii, 3), A2 |-> CharAt(ttaaii, 4),
                   II |-> SubSeq(ttaaii, 5, 6)]]

\* WMOProductID.GetDataType: the first row of DataTable with this T1
GetDataType(w) ==
    IF \E i \in 1..Len(DataTable) : DataTable[i].T1 = w.T1
    THEN DataTable[CHOOSE i \in 1..Len(DataTable) :
                      /\ DataTable[i].T1 = w.T1
                      /\ \A j \in 1..(i - 1) : DataTable[j].T1 # w.T1].DataType
    ELSE "Unknown"

ParseAwipsID_NoTrim(awipsid) ==
    IF Len(awipsid) < 3
    THEN [err |-> TRUE, NNN |-> "", XXX |-> ""]
    ELSE [err |-> FALSE, NNN |-> SubSeq(awipsid, 1, 3),
          XXX |-> SubSeq(awipsid, 4, Len(awipsid))]

\* NWWSOIMessageXExtension.ParseAwipsID
ParseAwipsID(awipsid) ==
    LET awipsID == TrimSpace(awipsid)
    IN  IF Len(awipsID) < 3
        THEN [err |-> TRUE, NNN |-> "", XXX |-> ""]
        ELSE [err |-> FALSE, NNN |-> SubSeq(awipsID, 1, 3),
              XXX |-> SubSeq(awipsID, 4, Len(awipsID))]

\* AWIPSProductID.GetProductName
GetProductName(a) ==
    IF a.NNN \in DOMAIN CommonProducts THEN CommonProducts[a.NNN].Name ELSE a.NNN

\* AWIPSProductID.GetProductCategory
GetProductCategory(a) ==
    IF a.NNN \in DOMAIN CommonProducts THEN CommonProducts[a.NNN].Category ELSE "Unknown"

\* ------------------------------------------------------ alert decoder

\* a nil *Alert, and an Info block with the fields the client reads
NilAlert == [isNil |-> TRUE, Info |-> <<>>]
InfoBlock(event, severity, urgency, certainty) ==
    [Event |-> event, Severity |-> severity, Urgency |-> urgency,
     Certainty |-> certainty, Headline |-> "", Description |-> "",
     Instruction |-> "", Area |-> <<>>]

\* the bulletin texts of the model
PlainText == "AUTOMATED GAUGE DATA"
TornadoXML == "<alert><info><event>Tornado Warning</event><severity>Extreme</severity><urgency>Immediate</urgency><certainty>Observed</certainty></info></alert>"
EmptyAlertXML == "<alert></alert>"
BrokenXML == "<alert><info>"

\* xml.Unmarshal([]byte(xmlText), &alert) on the texts of the model: an
\* <alert> element decodes into an Alert with its Info blocks, an envelope
\* that is not closed is a syntax error
XmlUnmarshalAlert(xmlText) ==
    CASE xmlText = TornadoXML ->
            [err |-> FALSE,
             alert |-> [isNil |-> FALSE,
                        Info |-> <<InfoBlock("Tornado Warning", "Extreme",
                                             "Immediate", "Observed")>>]]
      [] xmlText = EmptyAlertXML ->
            [err |-> FALSE, alert |-> [isNil |-> FALSE, Info |-> <<>>]]
      [] OTHER -> [err |-> TRUE, alert |-> NilAlert]

\* ParseCAP: (nil, nil) when the text holds no "<alert"
ParseCAP(text) ==
    LET xmlText == TrimSpace(text)
    IN  IF ~Contains(xmlText, "<alert")
        THEN [err |-> FALSE, alert |-> NilAlert]
        ELSE XmlUnmarshalAlert(xmlText)

\* Alert.GetPrimaryInfo: the first Info block, nil (<<>>) when there is none
HasPrimaryInfo(a) == Len(a.Info) > 0
GetPrimaryInfo(a) == a.Info[1]

isLikelyCAP(productID, text) == productID.T1 = "X" \/ Contains(text, "<alert")

\* ---------------------------------------------------------- dispatcher

NoInfo ==
    [err |-> TRUE, productID |-> NoProductID, productName |-> "",
     productCategory |-> "", capAlert |-> NilAlert]

parseProductInfo_BrokenIsAlert(m) ==
    LET pid   == ParseTtaaii(m.Ttaaii)
        awips == ParseAwipsID(m.AwipsID)
        cap   == ParseCAP(m.Text)
    IN  IF pid.err THEN NoInfo
        ELSE [err |-> FALSE,
              productID |-> pid.id,
              productName |-> IF awips.err THEN GetDataType(pid.id)
                              ELSE GetProductName(awips),
              productCategory |-> IF awips.err THEN "Unknown"
                                  ELSE GetProductCategory(awips),
              capAlert |-> IF ~isLikelyCAP(pid.id, m.Text) THEN NilAlert
                           ELSE IF cap.err THEN [isNil |-> FALSE, Info |-> <<>>]
                           ELSE cap.alert]

parseProductInfo_AwipsFatal(m) ==
    LET pid   == ParseTtaaii(m.Ttaaii)
        awips == ParseAwipsID(m.AwipsID)
        cap   == ParseCAP(m.Text)
    IN  IF pid.err \/ awips.err THEN NoInfo
        ELSE [err |-> FALSE,
              productID |-> pid.id,
              productName |-> GetProductName(awips),
              productCategory |-> GetProductCategory(awips),
              capAlert |-> IF isLikelyCAP(pid.id, m.Text) /\ ~cap.err
                           THEN cap.alert ELSE NilAlert]

\* parseProductInfo; m.AwipsID has been trimmed by handleMessage
parseProductInfo(m) ==
    LET pid   == ParseTtaaii(m.Ttaaii)
        awips == ParseAwipsID(m.AwipsID)
        cap   == ParseCAP(m.Text)
    IN  IF pid.err THEN NoInfo
        ELSE [err |-> FALSE,
              productID |-> pid.id,
              productName |-> IF awips.err THEN GetDataType(pid.id)
                              ELSE GetProductName(awips),
              productCategory |-> IF awips.err THEN "Unknown"
                                  ELSE GetProductCategory(awips),
              capAlert |-> IF isLikelyCAP(pid.id, m.Text) /\ ~cap.err
                           THEN cap.alert ELSE NilAlert]

buildDisplayName(info) ==
    LET plain == IF info.productCategory # "Unknown"
                 THEN info.productName \o " (" \o info.productCategory \o ")"
                 ELSE info.productName
    IN  IF ~info.capAlert.isNil /\ HasPrimaryInfo(info.capAlert)
           /\ GetPrimaryInfo(info.capAlert).Event # ""
        THEN LET capInfo == GetPrimaryInfo(info.capAlert)
             IN  capInfo.Event \o " [" \o capInfo.Severity \o "/" \o capInfo.Urgency \o "]"
        ELSE plain

MaxCAPDescriptionLen == 800
MaxCAPInstructionLen == 200
MaxRegularProductLen == 1000

truncateText(text, maxLen) ==
    IF Len(text) <= maxLen THEN text
    ELSE SubSeq(text, 1, maxLen) \o "...\n[Message truncated]"

formatRegularProduct_NoAwips(m, productName) ==
    "[" \o m.Cccc \o "] " \o productName \o "\n"
        \o "Product: | Issued: " \o m.Issue \o "\n\n"
        \o truncateText(m.Text, MaxRegularProductLen)

formatRegularProduct(m, productName) ==
    "[" \o m.Cccc \o "] " \o productName \o "\n"
        \o "Product: " \o m.AwipsID \o " | Issued: " \o m.Issue \o "\n\n"
        \o truncateText(m.Text, MaxRegularProductLen)

formatCAPAlert_NoSeverity(m, capAlert) ==
    LET capInfo == GetPrimaryInfo(capAlert)
    IN  "[" \o m.Cccc \o "] " \o capInfo.Event \o "\n"
           \o "Product: " \o m.AwipsID \o " | Issued: " \o m.Issue \o "\n"
           \o "\n" \o truncateText(capInfo.Description, MaxCAPDescriptionLen)

formatCAPAlert(m, capAlert) ==
    LET capInfo == GetPrimaryInfo(capAlert)
        head == "[" \o m.Cccc \o "] " \o capInfo.Event \o "\n"
                  \o "Severity: " \o capInfo.Severity \o " | Urgency: " \o capInfo.Urgency
                  \o " | Certainty: " \o capInfo.Certainty \o "\n"
                  \o "Product: " \o m.AwipsID \o " | Issued: " \o m.Issue \o "\n"
        headline == IF capInfo.Headline # "" THEN "\n" \o capInfo.Headline \o "\n" ELSE ""
        areas == IF Len(capInfo.Area) > 0 /\ capInfo.Area[1].AreaDesc # ""
                 THEN "\nAffected Areas: " \o capInfo.Area[1].AreaDesc \o "\n" ELSE ""
        desc == IF capInfo.Description # ""
                THEN "\n" \o truncateText(capInfo.Description, MaxCAPDescriptionLen)
                ELSE "\n" \o truncateText(m.Text, MaxCAPDescriptionLen)
        instr == IF capInfo.Instruction # ""
                 THEN "\n\nInstructions: " \o truncateText(capInfo.Instruction, MaxCAPInstructionLen)
                 ELSE ""
    IN  head \o headline \o areas \o desc \o instr

formatAlertMessage(m, info) ==
    IF ~info.capAlert.isNil /\ HasPrimaryInfo(info.capAlert)
    THEN formatCAPAlert(m, info.capAlert)
    ELSE formatRegularProduct(m, info.productName)

\* the loop of shouldSendToSubscriber from filter i on
RECURSIVE ShouldSendFrom(_, _, _, _)
ShouldSendFrom(filters, i, productCategory, isCAP) ==
    IF i > Len(filters) THEN FALSE
    ELSE LET filterLower == ToLower(filters[i])
         IN  IF filterLower = "all" THEN TRUE
             ELSE IF filterLower = "cap" /\ isCAP THEN TRUE
             ELSE IF filterLower = ToLower(productCategory) THEN TRUE
             ELSE ShouldSendFrom(filters, i + 1, productCategory, isCAP)

shouldSendToSubscriber_CapAlways(sub, productCategory, isCAP) ==
    ShouldSendFrom(sub.Filters, 1, productCategory, TRUE)

shouldSendToSubscriber(sub, productCategory, isCAP) ==
    ShouldSendFrom(sub.Filters, 1, productCategory, isCAP)

\* --------------------------------------------------------------- state

VARIABLES
    stationSubscribers, \* SubscriptionManager.stationSubscribers: station -> <<Subscription>>
    subsNil,            \* TRUE when stationSubscribers is a nil map (Load of a null document)
    recentMessages,     \* SubscriptionManager.recentMessages: station -> <<RecentMessage>>
    filePath,           \* SubscriptionManager.filePath, "" when persistence is off
    autoSaveChan,       \* number of signals buffered in autoSaveChan (capacity 1)
    primaryFile,        \* the file at filePath
    backupFile,         \* the file at filePath + ".backup"
    tmpFile,            \* the file at filePath + ".tmp"
    loopPc,             \* autoSaveLoop: off (not started), select, save, done (returned)
    stopAutoSave,       \* TRUE when the channel stopAutoSave is closed
    saves,              \* caller of Save -> where its call of Save stands, and what it holds
    restarts,           \* the number of times the process was killed and started again
    ticks,              \* the number of ticks of the ticker that autoSaveLoop has taken
    crashed,            \* the process died of a panic
    lastSequence,       \* SeabirdClient.lastSequence: processID -> last sequence number
    pc,                 \* position of the ingestion unit in handleMessage
    cur,                \* the bulletin handleMessage is working on, or worked on last
    info,               \* its productInfo
    subscriptions,      \* the list deliverToSubscribers read from the store
    outbox,             \* the SendPrivateMessage calls made for cur, in order
    status,             \* what became of cur: none, processing, dropped, delivered
    now,                \* logical time: the number of bulletins received
    seqStatus,          \* history: what the sequence check found for cur
    gapLog,             \* history: the sequence gaps logged, in order
    fed,                \* history: processID -> the counters observed, in order
    added,              \* history: station -> the messages handed to AddRecentMessage
    sendErrors,         \* history: the SendPrivateMessage calls the sink answered with an error
    unsaved,            \* history: a change was signalled that no renamed snapshot holds yet
    lastSaved,          \* history: the store as the last Save that replaced the primary file saw it
    crashedSaves,       \* history: the calls of Save the last kill of the process interrupted
    lastOp,             \* history: the store operation that completed last
    mainPc,             \* main: new, run (before c.Run), wait (in g.Wait), returned, fatal, exit0
    fatalMsg,           \* the message of the log.Fatal call that ended the process, or ""
    probes,             \* history: the sites getAvailableNWWSIOSite connected to, with the outcome
    site,               \* the address of the configuration getAvailableNWWSIOSite returned, or ""
    conn,               \* the transport of the stream manager's client: down, up
    connects,           \* the number of times the stream manager has connected
    room,               \* whether the room holds the session as an occupant: out, joined
    presences,          \* error presences from the room that handlePresence has not taken yet
    rejoins,            \* the goroutines of handlePresence: the seconds each has left to sleep
    joinable,           \* the room accepts a join and the transport carries it
    cancelFunc,         \* SeabirdClient.cancelFunc is set
    ctxDone,            \* the context the command unit watches is cancelled
    stopped,            \* StreamManager.Stop was called
    runErr,             \* NWWSClient.Run returned an error
    feedUnit,           \* the unit running NWWSClient.Run: idle, running, returned
    commandUnit,        \* the unit running handleCommandEvents: idle, running, returned
    shutdownPc,         \* the signal goroutine: wait (on sigChan), done (Shutdown returned)
    ext,                \* the codes of an NWWSOIMessageXExtension handed to the parsers
    decoded,            \* what ParseTtaaii, ParseAwipsID and the catalog lookups returned for ext
    heldSubs,           \* the list a caller got from GetStationSubscriptions, and for which station
    heldRecent,         \* the list a caller got from GetRecentMessages, and for which station
    mu,                 \* SubscriptionManager.mu: the unit holding it for writing, those holding it for reading
    sequenceMu,         \* SeabirdClient.sequenceMu: the unit holding it, or ""
    at                  \* unit -> where it stands in the locking of the operation it runs

vars ==
    << stationSubscribers, subsNil, recentMessages, filePath, autoSaveChan,
       primaryFile, backupFile, crashed, lastSequence, pc, cur, info,
       subscriptions, outbox, status, now, seqStatus, gapLog, fed, added,
       sendErrors, lastOp, tmpFile, loopPc, stopAutoSave, saves, restarts,
       ticks, unsaved, lastSaved, crashedSaves, mainPc, fatalMsg, probes, site,
       conn, connects, room, presences, rejoins, joinable, cancelFunc, ctxDone,
       stopped, runErr, feedUnit, commandUnit, shutdownPc, ext, decoded,
       heldSubs, heldRecent, mu, sequenceMu, at >>

storeVars == << stationSubscribers, subsNil, recentMessages, filePath, autoSaveChan, crashed >>
diskVars == << primaryFile, backupFile, tmpFile >>
saverVars == << loopPc, stopAutoSave, saves, restarts, ticks, lastSaved, crashedSaves >>
ingestVars ==
    << lastSequence, pc, cur, info, subscriptions, outbox, status, now,
       seqStatus, gapLog, fed, added, sendErrors >>

sessionVars ==
    << mainPc, fatalMsg, probes, site, conn, connects, room, presences, rejoins,
       joinable, cancelFunc, ctxDone, stopped, runErr, feedUnit, commandUnit,
       shutdownPc >>

parseVars == << ext, decoded >>
readVars == << heldSubs, heldRecent >>
lockVars == << mu, sequenceMu, at >>
restVars == << parseVars, readVars, lockVars >>

MaxRecentMessages == 5

\* the callers of Save: the autosave loop and Close
Savers == {"loop", "close"}

\* sm.mu is free for Lock: no call of Save holds it for reading
LockFree == \A s \in Savers : saves[s].pc \in {"idle", "call"}

\* ------------------------------------------------- persistence files

\* a JSON object as the set of its members, each a key with its value; the
\* value of a station is the array of its subscriptions, in order
JsonObject(m) == {[key |-> k, value |-> m[k]] : k \in DOMAIN m}

\* the map a JSON object decodes into
JsonMap(doc) ==
    [k \in {e.key : e \in doc} |-> (CHOOSE e \in doc : e.key = k).value]

MissingFile == [kind |-> "missing", doc |-> {}]
UnreadableFile == [kind |-> "unreadable", doc |-> {}]
CorruptFile == [kind |-> "corrupt", doc |-> {}]
NullFile == [kind |-> "null", doc |-> {}]
MapFile(m) == [kind |-> "map", doc |-> JsonObject(m)]

\* json.MarshalIndent(sm.stationSubscribers, "", "  "): a nil map is null
JsonMarshalIndent_NoFilters(subs, isNil) ==
    IF isNil THEN NullFile
    ELSE MapFile([k \in DOMAIN subs |->
                     [i \in 1..Len(subs[k]) |-> [UserID |-> subs[k][i].UserID,
                                                  Filters |-> <<>>]]])

JsonMarshalIndent_WithRecent(subs, isNil) ==
    IF isNil THEN NullFile
    ELSE MapFile([k \in (DOMAIN subs) \cup (DOMAIN recentMessages) |->
                     IF k \in DOMAIN subs THEN subs[k] ELSE <<>>])

JsonMarshalIndent(subs, isNil) == IF isNil THEN NullFile ELSE MapFile(subs)

\* os.ReadFile: the failure, if any
ReadFile(f) ==
    CASE f.kind = "missing" -> "not exist"
      [] f.kind = "unreadable" -> "error"
      [] OTHER -> "ok"

\* json.Unmarshal(data, &subscriptions) into a nil map[string][]Subscription:
\* text that is no JSON object fails, null leaves the map nil
JsonUnmarshal(f) ==
    CASE f.kind = "map" -> [err |-> FALSE, isNil |-> FALSE, val |-> JsonMap(f.doc)]
      [] f.kind = "null" -> [err |-> FALSE, isNil |-> TRUE, val |-> EmptyMap]
      [] OTHER -> [err |-> TRUE, isNil |-> TRUE, val |-> EmptyMap]

\* ---------------------------------------------------------- the store

\* triggerAutoSave: the send on autoSaveChan, which holds one signal
triggerAutoSave_Dropped(chan) == chan

triggerAutoSave_Queued(chan) == chan + 1

\* a completed store operation: its arguments, and what it returned (ret for
\* a bool or an error, count for the int of UnsubscribeFromAll)
OpN(name, userID, stationCode, filters, ret, count) ==
    [name |-> name, userID |-> userID, stationCode |-> stationCode,
     filters |-> filters, ret |-> ret, count |-> count]
Op(name, userID, stationCode, filters, ret) ==
    OpN(name, userID, stationCode, filters, ret, 0)
NoOp == Op("none", "", "", <<>>, "")

\* index of the first subscription of userID in subs, 0 when there is none
FirstOf(subs, userID) ==
    IF \E i \in 1..Len(subs) : subs[i].UserID = userID
    THEN CHOOSE i \in 1..Len(subs) :
            /\ subs[i].UserID = userID
            /\ \A j \in 1..(i - 1) : subs[j].UserID # userID
    ELSE 0

\* triggerAutoSave: a non-blocking send on a channel of capacity 1
triggerAutoSave(chan) == IF chan < 1 THEN chan + 1 ELSE chan

\* the default and the lower-casing of SubscribeToStation
NormalizeFilters_AsGiven(filters) ==
    IF Len(filters) = 0 THEN <<"cap">> ELSE filters

NormalizeFilters(filters) ==
    LET given == IF Len(filters) = 0 THEN <<"cap">> ELSE filters
    IN  [i \in 1..Len(given) |-> ToLower(given[i])]

\* the list SubscribeToStation stores for the station
SubscribedList(subs, userID, filters) ==
    LET i == FirstOf(subs, userID)
        kept == IF i = 0 THEN subs ELSE RemoveAt(subs, i)
    IN  kept \o <<[UserID |-> userID, Filters |-> NormalizeFilters(filters)]>>

SubscribeToStation(userID, stationCode, filters) ==
    /\ ~crashed
    /\ LockFree
    /\ LET code == ToUpper(stationCode)
           subs == MapGet(stationSubscribers, code, <<>>)
       IN  IF subsNil
           THEN \* assignment to an entry in a nil map panics
                /\ crashed' = TRUE
                /\ lastOp' = Op("subscribe", userID, stationCode, filters, "panic")
                /\ UNCHANGED << stationSubscribers, autoSaveChan, unsaved >>
           ELSE /\ stationSubscribers' =
                      MapPut(stationSubscribers, code, SubscribedList(subs, userID, filters))
                /\ autoSaveChan' = triggerAutoSave(autoSaveChan)
                /\ unsaved' = (unsaved \/ filePath # "")
                /\ lastOp' = Op("subscribe", userID, stationCode, filters, "")
                /\ UNCHANGED crashed
    /\ UNCHANGED << subsNil, recentMessages, filePath, diskVars, saverVars, ingestVars >>
    /\ UNCHANGED << sessionVars, restVars >>

UnsubscribeFromStation(userID, stationCode) ==
    /\ ~crashed
    /\ LockFree
    /\ LET code == ToUpper(stationCode)
           subscribers == MapGet(stationSubscribers, code, <<>>)
           i == FirstOf(subscribers, userID)
           rest == RemoveAt(subscribers, i)
       IN  IF i # 0
           THEN /\ stationSubscribers' =
                      IF Len(rest) = 0 THEN MapDelete(stationSubscribers, code)
                      ELSE MapPut(stationSubscribers, code, rest)
                /\ autoSaveChan' = triggerAutoSave(autoSaveChan)
                /\ unsaved' = (unsaved \/ filePath # "")
                /\ lastOp' = Op("unsubscribe", userID, stationCode, <<>>, "true")
           ELSE /\ lastOp' = Op("unsubscribe", userID, stationCode, <<>>, "false")
                /\ UNCHANGED << stationSubscribers, autoSaveChan, unsaved >>
    /\ UNCHANGED << subsNil, recentMessages, filePath, crashed, diskVars, saverVars, ingestVars >>
    /\ UNCHANGED << sessionVars, restVars >>

\* the subscriptions of subs that are not userID's
RECURSIVE WithoutUser_FirstOnly(_, _)
WithoutUser_FirstOnly(subs, userID) ==
    IF Len(subs) = 0 THEN <<>>
    ELSE IF Head(subs).UserID = userID THEN Tail(subs)
    ELSE <<Head(subs)>> \o WithoutUser_FirstOnly(Tail(subs), userID)

RECURSIVE WithoutUser(_, _)
WithoutUser(subs, userID) ==
    IF Len(subs) = 0 THEN <<>>
    ELSE IF Head(subs).UserID = userID THEN WithoutUser(Tail(subs), userID)
    ELSE <<Head(subs)>> \o WithoutUser(Tail(subs), userID)

RECURSIVE SumOver(_, _)
SumOver(S, f) ==
    IF S = {} THEN 0
    ELSE LET x == CHOOSE y \in S : TRUE IN f[x] + SumOver(S \ {x}, f)

UnsubscribeFromAll(userID) ==
    /\ ~crashed
    /\ LockFree
    /\ LET stations == DOMAIN stationSubscribers
           newSubs == [s \in stations |-> WithoutUser(stationSubscribers[s], userID)]
           count == SumOver(stations,
                        [s \in stations |-> Len(stationSubscribers[s]) - Len(newSubs[s])])
           keep == {s \in stations : Len(newSubs[s]) # 0}
       IN  /\ stationSubscribers' = [s \in keep |-> newSubs[s]]
           /\ autoSaveChan' = IF count > 0 THEN triggerAutoSave(autoSaveChan) ELSE autoSaveChan
           /\ unsaved' = (unsaved \/ (count > 0 /\ filePath # ""))
           /\ lastOp' = OpN("unsubscribeAll", userID, "", <<>>, "", count)
    /\ UNCHANGED << subsNil, recentMessages, filePath, crashed, diskVars, saverVars, ingestVars >>
    /\ UNCHANGED << sessionVars, restVars >>

\* GetUserStationSubscriptions: the stations that hold an entry of userID; the
\* order of the list is that of Go's map iteration, so the model keeps the set
StationsIn(m, userID) ==
    {s \in DOMAIN m : \E i \in 1..Len(m[s]) : m[s][i].UserID = userID}

GetUserStationSubscriptions(userID) == StationsIn(stationSubscribers, userID)

GetStationSubscriptions(stationCode) ==
    MapGet(stationSubscribers, ToUpper(stationCode), <<>>)

GetRecentMessages(stationCode) ==
    MapGet(recentMessages, ToUpper(stationCode), <<>>)

\* the ring of a station after AddRecentMessage appends msg to it
AppendRecent_NoEvict(messages, msg) == Append(messages, msg)

AppendRecent_DropNewest(messages, msg) ==
    LET all == Append(messages, msg)
    IN  IF Len(all) > MaxRecentMessages THEN SubSeq(all, 1, MaxRecentMessages) ELSE all

AppendRecent(messages, msg) ==
    LET all == Append(messages, msg)
    IN  IF Len(all) > MaxRecentMessages THEN SubSeq(all, 2, Len(all)) ELSE all

AddRecentMessage(recent, msg) ==
    LET station == ToUpper(msg.Station)
    IN  MapPut(recent, station, AppendRecent(MapGet(recent, station, <<>>), msg))

\* SetPersistenceFile sets the path and starts autoSaveLoop; it is called
\* once, before the loop runs
SetPersistenceFile(path) ==
    /\ ~crashed
    /\ LockFree
    /\ loopPc = "off"
    /\ filePath' = path
    /\ loopPc' = "select"
    /\ lastOp' = Op("setPersistenceFile", "", "", <<>>, "")
    /\ UNCHANGED << stationSubscribers, subsNil, recentMessages, autoSaveChan,
                    crashed, diskVars, ingestVars, stopAutoSave, saves, restarts,
                    ticks, unsaved, lastSaved, crashedSaves >>
    /\ UNCHANGED << sessionVars, restVars >>

\* loadBackup: what Load falls back to when the primary file does not parse
loadBackup ==
    LET parsed == JsonUnmarshal(backupFile)
    IN  IF ReadFile(backupFile) # "ok" \/ parsed.err
        THEN UNCHANGED << stationSubscribers, subsNil >>
        ELSE /\ stationSubscribers' = parsed.val
             /\ subsNil' = parsed.isNil

Load ==
    /\ ~crashed
    /\ LockFree
    /\ LET read == ReadFile(primaryFile)
           parsed == JsonUnmarshal(primaryFile)
       IN  IF filePath = "" \/ read = "not exist"
           THEN /\ lastOp' = Op("load", "", "", <<>>, "nil")
                /\ UNCHANGED << stationSubscribers, subsNil >>
           ELSE IF read = "error"
           THEN /\ lastOp' = Op("load", "", "", <<>>, "error")
                /\ UNCHANGED << stationSubscribers, subsNil >>
           ELSE IF parsed.err
           THEN /\ loadBackup
                /\ lastOp' = Op("load", "", "", <<>>, "nil")
           ELSE /\ stationSubscribers' = parsed.val
                /\ subsNil' = parsed.isNil
                /\ lastOp' = Op("load", "", "", <<>>, "nil")
    /\ UNCHANGED << recentMessages, filePath, autoSaveChan, crashed, diskVars, saverVars,
                    unsaved, ingestVars >>
    /\ UNCHANGED << sessionVars, restVars >>

\* ------------------------------------------------------- the commands

\* nwwsio.GetAllCategories: the categories of the product catalog
GetAllCategories == {CommonProducts[k].Category : k \in DOMAIN CommonProducts}

\* ValidateFilters: the filters that are neither all, cap nor a category
IsInvalidFilter(filter) ==
    ToLower(TrimSpace(filter)) \notin ({"all", "cap"} \cup {ToLower(c) : c \in GetAllCategories})

ValidateFilters_OnlyFirst(filters) ==
    IF Len(filters) > 0 /\ IsInvalidFilter(filters[1]) THEN <<filters[1]>> ELSE <<>>

ValidateFilters(filters) == SelectSeq(filters, IsInvalidFilter)

\* ValidateStationCode: the error, "" for nil
ValidateStationCode_AnyFour(code) ==
    IF Len(ToUpper(code)) # 4 THEN "station code must be 4 characters (e.g., KARB)" ELSE ""

ValidateStationCode(code) ==
    LET c == ToUpper(code)
    IN  IF Len(c) # 4 THEN "station code must be 4 characters (e.g., KARB)"
        ELSE IF CharAt(c, 1) # "K" /\ CharAt(c, 1) # "P"
        THEN "station code must start with K or P"
        ELSE ""

\* the filters of a subscribe command: the parts between commas of args[3:],
\* trimmed, the empty ones left out, and cap when there are none
RECURSIVE TrimmedParts(_)
TrimmedParts(parts) ==
    IF Len(parts) = 0 THEN <<>>
    ELSE (IF TrimSpace(Head(parts)) # "" THEN <<TrimSpace(Head(parts))>> ELSE <<>>)
             \o TrimmedParts(Tail(parts))

RECURSIVE FiltersOf(_)
FiltersOf(rest) ==
    IF Len(rest) = 0 THEN <<>>
    ELSE TrimmedParts(Split(Head(rest), ",")) \o FiltersOf(Tail(rest))

CommandFilters(args) ==
    LET filters == FiltersOf(SubSeq(args, 4, Len(args)))
    IN  IF Len(filters) = 0 THEN <<"cap">> ELSE filters

\* handleNoaaCommand answers with SendMessage and calls nothing of the store
Reply(userID, args, text) ==
    /\ lastOp' = Op("reply", userID, IF Len(args) >= 3 THEN args[3] ELSE "",
                    IF Len(args) >= 3 THEN CommandFilters(args) ELSE <<>>, text)
    /\ UNCHANGED << storeVars, diskVars, saverVars, unsaved, ingestVars >>
    /\ UNCHANGED << sessionVars, restVars >>

\* handleNoaaCommand for the words of a !noaa command: subscribe and
\* unsubscribe call the store, everything else is answered only
handleNoaaCommand(userID, args) ==
    /\ ~crashed
    /\ IF Len(args) < 1 THEN Reply(userID, args, "Usage")
       ELSE IF ToLower(args[1]) = "subscribe"
       THEN IF Len(args) < 3 THEN Reply(userID, args, "Usage")
            ELSE IF Len(ValidateFilters(CommandFilters(args))) > 0
            THEN Reply(userID, args, "Invalid filter(s)")
            ELSE IF ToLower(args[2]) # "station"
            THEN Reply(userID, args, "Invalid subscription type")
            ELSE IF ValidateStationCode(args[3]) # ""
            THEN Reply(userID, args, "Invalid station code")
            ELSE SubscribeToStation(userID, args[3], CommandFilters(args))
       ELSE IF ToLower(args[1]) = "unsubscribe"
       THEN IF Len(args) < 2 THEN Reply(userID, args, "Usage")
            ELSE IF ToLower(args[2]) = "all" THEN UnsubscribeFromAll(userID)
            ELSE IF Len(args) < 3 THEN Reply(userID, args, "Usage")
            ELSE IF ToLower(args[2]) = "station" THEN UnsubscribeFromStation(userID, args[3])
            ELSE Reply(userID, args, "Invalid subscription type")
       ELSE Reply(userID, args, "other")

\* ------------------------------------------------------------- saving

\* a caller that is not in Save, and the history before any Save
NoSave ==
    [pc |-> "idle", data |-> MissingFile, copy |-> MissingFile, at |-> "tmp",
     mixed |-> FALSE, old |-> <<MissingFile, MissingFile>>,
     seen |-> [subs |-> EmptyMap, isNil |-> FALSE], err |-> FALSE]

NothingSaved == [some |-> FALSE, subs |-> EmptyMap, isNil |-> FALSE]

\* the frame of a step of Save
SaveFrame ==
    UNCHANGED << stationSubscribers, subsNil, recentMessages, filePath, autoSaveChan,
                 crashed, stopAutoSave, restarts, ticks, crashedSaves, ingestVars, lastOp,
                 sessionVars, restVars >>

\* autoSaveLoop is back at its select when its call of Save returns
AfterSave(s) == IF s = "loop" THEN "select" ELSE loopPc

\* Save takes the read lock, returns when no path is set, and marshals the map
SaveBegin(s) ==
    /\ ~crashed
    /\ saves[s].pc = "call"
    /\ IF filePath = ""
       THEN /\ saves' = [saves EXCEPT ![s] = NoSave]
            /\ loopPc' = AfterSave(s)
       ELSE /\ saves' = [saves EXCEPT ![s] =
                           [NoSave EXCEPT !.pc = "backup",
                               !.data = JsonMarshalIndent(stationSubscribers, subsNil),
                               !.old = <<primaryFile, backupFile>>,
                               !.seen = [subs |-> stationSubscribers, isNil |-> subsNil]]]
            /\ UNCHANGED loopPc
    /\ UNCHANGED << diskVars, unsaved, lastSaved >>
    /\ SaveFrame

\* Save: when the file exists copyFile reads it and opens the backup for
\* writing, which empties it; a copy that fails is logged and Save goes on
SaveBackup(s) ==
    /\ ~crashed
    /\ saves[s].pc = "backup"
    /\ IF ReadFile(primaryFile) # "ok"
       THEN /\ saves' = [saves EXCEPT ![s].pc = "tmp"]
            /\ UNCHANGED backupFile
       ELSE /\ saves' = [o \in Savers |->
                           IF o = s THEN [saves[s] EXCEPT !.pc = "copy", !.copy = primaryFile]
                           ELSE IF saves[o].pc = "copy" THEN [saves[o] EXCEPT !.mixed = TRUE]
                           ELSE saves[o]]
            /\ backupFile' = CorruptFile
    /\ UNCHANGED << primaryFile, tmpFile, loopPc, unsaved, lastSaved >>
    /\ SaveFrame

\* what a write leaves in a file: the data, or a mixture when another write
\* of the same file ran beside it
WrittenBy(save, data) == IF save.mixed THEN {data, CorruptFile} ELSE {data}

\* copyFile: the write of the backup is complete
SaveBackupDone(s) ==
    /\ ~crashed
    /\ saves[s].pc = "copy"
    /\ \E content \in WrittenBy(saves[s], saves[s].copy) : backupFile' = content
    /\ saves' = [saves EXCEPT ![s].pc = "tmp", ![s].mixed = FALSE]
    /\ UNCHANGED << primaryFile, tmpFile, loopPc, unsaved, lastSaved >>
    /\ SaveFrame

\* os.WriteFile(tmpFile, ...) opens the temporary file, which empties it
SaveTmp(s) ==
    /\ ~crashed
    /\ saves[s].pc = "tmp"
    /\ tmpFile' = CorruptFile
    /\ saves' = [o \in Savers |->
                    IF o = s
                    THEN [saves[s] EXCEPT !.pc = "write", !.at = "tmp",
                             !.mixed = \E w \in Savers \ {s} :
                                          saves[w].pc = "write" /\ saves[w].at = "tmp"]
                    ELSE IF saves[o].pc = "write" /\ saves[o].at = "tmp"
                    THEN [saves[o] EXCEPT !.mixed = TRUE]
                    ELSE saves[o]]
    /\ UNCHANGED << primaryFile, backupFile, loopPc, unsaved, lastSaved >>
    /\ SaveFrame

\* os.WriteFile: the write is complete, in the file that was opened, which is
\* the primary file by now when another Save has renamed it meanwhile
SaveTmpDone(s) ==
    /\ ~crashed
    /\ saves[s].pc = "write"
    /\ \E content \in WrittenBy(saves[s], saves[s].data) :
          IF saves[s].at = "tmp"
          THEN /\ tmpFile' = content
               /\ UNCHANGED << primaryFile, lastSaved >>
          ELSE /\ primaryFile' = content
               /\ lastSaved' = NothingSaved
               /\ UNCHANGED tmpFile
    /\ saves' = [saves EXCEPT ![s].pc = "rename", ![s].mixed = FALSE]
    /\ UNCHANGED << backupFile, loopPc, unsaved >>
    /\ SaveFrame

\* os.Rename(tmpFile, sm.filePath), which fails when the temporary file is
\* gone, and the return of Save
SaveRename(s) ==
    /\ ~crashed
    /\ saves[s].pc = "rename"
    /\ IF tmpFile.kind = "missing"
       THEN /\ saves' = [saves EXCEPT ![s] = NoSave]
            /\ UNCHANGED << primaryFile, tmpFile, unsaved, lastSaved >>
       ELSE /\ primaryFile' = tmpFile
            /\ tmpFile' = MissingFile
            /\ saves' = [o \in Savers |->
                            IF o = s THEN NoSave
                            ELSE IF saves[o].pc = "write" /\ saves[o].at = "tmp"
                            THEN [saves[o] EXCEPT !.at = "primary"]
                            ELSE saves[o]]
            /\ unsaved' = IF tmpFile = saves[s].data THEN FALSE ELSE unsaved
            /\ lastSaved' =
                  IF tmpFile = saves[s].data
                     /\ ~\E o \in Savers \ {s} : saves[o].pc = "write" /\ saves[o].at = "tmp"
                  THEN [some |-> TRUE, subs |-> saves[s].seen.subs,
                        isNil |-> saves[s].seen.isNil]
                  ELSE NothingSaved
    /\ loopPc' = AfterSave(s)
    /\ UNCHANGED backupFile
    /\ SaveFrame

\* Save returns an error: MkdirAll, the WriteFile of the temporary file (at its
\* open or in its write) or Rename failed. autoSaveLoop logs the error and goes
\* back to its select; Close hands it to its caller
SaveFail_StopsLoop(s) ==
    /\ ~crashed
    /\ saves[s].pc \in {"backup", "tmp", "write", "rename"}
    /\ saves' = [saves EXCEPT ![s] = [NoSave EXCEPT !.err = TRUE]]
    /\ loopPc' = IF s = "loop" THEN "done" ELSE loopPc
    /\ UNCHANGED << diskVars, unsaved, lastSaved >>
    /\ SaveFrame

SaveFail(s) ==
    /\ ~crashed
    /\ saves[s].pc \in {"backup", "tmp", "write", "rename"}
    /\ saves' = [saves EXCEPT ![s] = [NoSave EXCEPT !.err = TRUE]]
    /\ loopPc' = AfterSave(s)
    /\ UNCHANGED << diskVars, unsaved, lastSaved >>
    /\ SaveFrame

\* autoSaveLoop: the select takes a signal from autoSaveChan and calls Save
LoopSignal ==
    /\ ~crashed
    /\ loopPc = "select"
    /\ autoSaveChan > 0
    /\ autoSaveChan' = autoSaveChan - 1
    /\ loopPc' = "save"
    /\ saves' = [saves EXCEPT !["loop"].pc = "call"]
    /\ UNCHANGED << stationSubscribers, subsNil, recentMessages, filePath, crashed,
                    diskVars, stopAutoSave, restarts, ticks, unsaved, lastSaved,
                    crashedSaves, ingestVars, lastOp >>
    /\ UNCHANGED << sessionVars, restVars >>

\* autoSaveLoop: the select takes a tick of the five-minute ticker and calls Save
LoopTick(bound) ==
    /\ ~crashed
    /\ loopPc = "select"
    /\ ticks < bound
    /\ ticks' = ticks + 1
    /\ loopPc' = "save"
    /\ saves' = [saves EXCEPT !["loop"].pc = "call"]
    /\ UNCHANGED << stationSubscribers, subsNil, recentMessages, filePath, autoSaveChan,
                    crashed, diskVars, stopAutoSave, restarts, unsaved, lastSaved,
                    crashedSaves, ingestVars, lastOp >>
    /\ UNCHANGED << sessionVars, restVars >>

\* autoSaveLoop: the select finds stopAutoSave closed and the loop returns
LoopStop ==
    /\ ~crashed
    /\ loopPc = "select"
    /\ stopAutoSave
    /\ loopPc' = "done"
    /\ UNCHANGED << stationSubscribers, subsNil, recentMessages, filePath, autoSaveChan,
                    crashed, diskVars, stopAutoSave, saves, restarts, ticks, unsaved,
                    lastSaved, crashedSaves, ingestVars, lastOp >>
    /\ UNCHANGED << sessionVars, restVars >>

\* Close closes stopAutoSave, which panics when it is closed already, and
\* calls Save
Close ==
    /\ ~crashed
    /\ saves["close"].pc = "idle"
    /\ IF stopAutoSave
       THEN /\ crashed' = TRUE
            /\ lastOp' = Op("close", "", "", <<>>, "panic")
            /\ UNCHANGED << stopAutoSave, saves >>
       ELSE /\ stopAutoSave' = TRUE
            /\ saves' = [saves EXCEPT !["close"].pc = "call"]
            /\ lastOp' = Op("close", "", "", <<>>, "")
            /\ UNCHANGED crashed
    /\ UNCHANGED << stationSubscribers, subsNil, recentMessages, filePath, autoSaveChan,
                    diskVars, loopPc, restarts, ticks, unsaved, lastSaved, crashedSaves,
                    ingestVars >>
    /\ UNCHANGED << sessionVars, restVars >>

\* ------------------------------------------------------ ingestion path

NoBulletin == [Cccc |-> "", Ttaaii |-> "", Issue |-> "", AwipsID |-> "", ID |-> "", Text |-> ""]
Bulletin(cccc, ttaaii, issue, awipsid, id, text) ==
    [Cccc |-> cccc, Ttaaii |-> ttaaii, Issue |-> issue, AwipsID |-> awipsid,
     ID |-> id, Text |-> text]

\* checkSequenceGaps: whether a gap is logged, with what, and the tracker after it
GapFound_OnlyForward(last, processID, sequenceID) ==
    processID \in DOMAIN last /\ sequenceID > last[processID] + 1

GapFound(last, processID, sequenceID) ==
    processID \in DOMAIN last /\ sequenceID # last[processID] + 1

GapEntry(last, processID, sequenceID) ==
    [processID |-> processID, expected |-> last[processID] + 1,
     received |-> sequenceID, missedCount |-> sequenceID - (last[processID] + 1)]

TrackerAfter_KeepOnGap(last, processID, sequenceID) ==
    IF GapFound(last, processID, sequenceID) THEN last
    ELSE MapPut(last, processID, sequenceID)

TrackerAfter(last, processID, sequenceID) == MapPut(last, processID, sequenceID)

\* the RecentMessage handleMessage builds
RecentOf(m, inf, time) ==
    [Station |-> m.Cccc, DataType |-> buildDisplayName(inf), AwipsID |-> m.AwipsID,
     Issue |-> m.Issue, Text |-> m.Text, Timestamp |-> time]

\* the sends of deliverToSubscribers from subscription i on
RECURSIVE DeliverFrom(_, _, _, _)
DeliverFrom(subs, i, inf, alertMsg) ==
    IF i > Len(subs) THEN <<>>
    ELSE (IF shouldSendToSubscriber(subs[i], inf.productCategory, ~inf.capAlert.isNil)
          THEN <<[UserID |-> subs[i].UserID, Text |-> alertMsg]>>
          ELSE <<>>)
         \o DeliverFrom(subs, i + 1, inf, alertMsg)

deliverToSubscribers_FirstOnly(subs, inf, alertMsg) ==
    LET all == DeliverFrom(subs, 1, inf, alertMsg)
    IN  IF Len(all) > 1 THEN <<all[1]>> ELSE all

deliverToSubscribers(subs, inf, alertMsg) ==
    IF Len(subs) = 0 THEN <<>> ELSE DeliverFrom(subs, 1, inf, alertMsg)

\* whether handleMessage goes on after the sequence check and the parse
GoesOn_Always(seq, inf) == TRUE

GoesOn_NeedsSequence(seq, inf) == ~inf.err /\ ~seq.err

GoesOn(seq, inf) == ~inf.err

\* handleMessage up to the parse of the product identity: the AWIPS id is
\* trimmed, the sequence id is checked under sequenceMu when it parses, and a
\* bulletin whose product identity does not parse is dropped
Receive(msg, bound) ==
    /\ ~crashed
    /\ pc = "idle"
    /\ now < bound
    /\ LET m   == [msg EXCEPT !.AwipsID = TrimSpace(msg.AwipsID)]
           seq == GetSequenceID(m.ID)
           gap == ~seq.err /\ GapFound(lastSequence, seq.processName, seq.sequenceID)
           inf == parseProductInfo(m)
       IN  /\ cur' = m
           /\ now' = now + 1
           /\ info' = inf
           /\ lastSequence' = IF seq.err THEN lastSequence
                              ELSE TrackerAfter(lastSequence, seq.processName, seq.sequenceID)
           /\ gapLog' = IF gap
                        THEN Append(gapLog, GapEntry(lastSequence, seq.processName, seq.sequenceID))
                        ELSE gapLog
           /\ fed' = IF seq.err THEN fed
                     ELSE MapPut(fed, seq.processName,
                                 Append(MapGet(fed, seq.processName, <<>>), seq.sequenceID))
           /\ seqStatus' = IF seq.err THEN "unparsed"
                           ELSE IF gap THEN "gap"
                           ELSE IF seq.processName \in DOMAIN lastSequence THEN "inorder"
                           ELSE "first"
           /\ pc' = IF GoesOn(seq, inf) THEN "record" ELSE "idle"
           /\ status' = IF GoesOn(seq, inf) THEN "processing" ELSE "dropped"
    /\ subscriptions' = <<>>
    /\ outbox' = <<>>
    /\ UNCHANGED << added, sendErrors, storeVars, diskVars, saverVars, unsaved, lastOp >>
    /\ UNCHANGED << sessionVars, restVars >>

\* the ring handleMessage leaves for cur's station
RecordedRing_Skip(recent, m, inf, time) == recent

RecordedRing(recent, m, inf, time) == AddRecentMessage(recent, RecentOf(m, inf, time))

\* handleMessage: the bulletin is stored in the recent history of its station
Record ==
    /\ ~crashed
    /\ pc = "record"
    /\ recentMessages' = RecordedRing(recentMessages, cur, info, now)
    /\ added' = MapPut(added, ToUpper(cur.Cccc),
                       Append(MapGet(added, ToUpper(cur.Cccc), <<>>), RecentOf(cur, info, now)))
    /\ pc' = "deliver"
    /\ LockFree
    /\ UNCHANGED << stationSubscribers, subsNil, filePath, autoSaveChan, crashed, diskVars,
                    saverVars, unsaved,
                    lastSequence, cur, info, subscriptions, outbox, status, now,
                    seqStatus, gapLog, fed, sendErrors, lastOp >>
    /\ UNCHANGED << sessionVars, restVars >>

\* SendPrivateMessage logs the error of the sink and returns nothing, so the
\* loop of deliverToSubscribers makes every call whichever of them fail:
\* the calls made, given those due and the users the sink fails for
RECURSIVE SendsMade_StopAtError(_, _)
SendsMade_StopAtError(calls, failing) ==
    IF Len(calls) = 0 THEN <<>>
    ELSE IF Head(calls).UserID \in failing THEN <<Head(calls)>>
    ELSE <<Head(calls)>> \o SendsMade_StopAtError(Tail(calls), failing)

SendsMade(calls, failing) == calls

\* the calls among those made that the sink answered with an error
RECURSIVE ErrorsOf(_, _, _)
ErrorsOf(calls, failing, time) ==
    IF Len(calls) = 0 THEN <<>>
    ELSE (IF Head(calls).UserID \in failing
          THEN <<[UserID |-> Head(calls).UserID, time |-> time]>> ELSE <<>>)
         \o ErrorsOf(Tail(calls), failing, time)

\* handleMessage: one message is formatted, the subscriptions of the station
\* are read from the store and the message is sent to each that matches;
\* failing are the users for whom the sink fails while this bulletin is sent
Deliver(failing) ==
    /\ ~crashed
    /\ pc = "deliver"
    /\ subscriptions' = GetStationSubscriptions(cur.Cccc)
    /\ outbox' = SendsMade(deliverToSubscribers(GetStationSubscriptions(cur.Cccc), info,
                                                formatAlertMessage(cur, info)), failing)
    /\ sendErrors' = sendErrors \o ErrorsOf(outbox', failing, now)
    /\ pc' = "idle"
    /\ status' = "delivered"
    /\ UNCHANGED << storeVars, diskVars, saverVars, unsaved, lastSequence, cur, info, now,
                    seqStatus, gapLog, fed, added, lastOp >>
    /\ UNCHANGED << sessionVars, restVars >>

\* the process is killed, at any point, and started again: the memory is that
\* of a new client and the files are as the kill left them
KillAndRestart(bound) ==
    /\ restarts < bound
    /\ restarts' = restarts + 1
    /\ crashedSaves' = {[old |-> saves[s].old, seen |-> saves[s].seen,
                           left |-> <<primaryFile, backupFile>>] :
                           s \in {w \in Savers : saves[w].pc \notin {"idle", "call"}}}
    /\ stationSubscribers' = EmptyMap
    /\ subsNil' = FALSE
    /\ recentMessages' = EmptyMap
    /\ filePath' = ""
    /\ autoSaveChan' = 0
    /\ crashed' = FALSE
    /\ loopPc' = "off"
    /\ stopAutoSave' = FALSE
    /\ saves' = [s \in Savers |-> NoSave]
    /\ unsaved' = FALSE
    /\ lastSequence' = EmptyMap
    /\ pc' = "idle"
    /\ cur' = NoBulletin
    /\ info' = NoInfo
    /\ subscriptions' = <<>>
    /\ outbox' = <<>>
    /\ status' = "none"
    /\ seqStatus' = "none"
    /\ gapLog' = <<>>
    /\ fed' = EmptyMap
    /\ added' = EmptyMap
    /\ sendErrors' = <<>>
    /\ lastOp' = Op("restart", "", "", <<>>, "")
    /\ UNCHANGED << diskVars, lastSaved, ticks, now >>
    /\ UNCHANGED << sessionVars, restVars >>

\* what a caller has of a list that a getter returned, when the store holds
\* current for that station by now: the getter made a slice of its own and
\* copied the elements into it, so the caller has the elements as they were
Returned_StoreSlice(held, current) == current

Returned(held, current) == held.list

\* a caller takes the list GetStationSubscriptions returns and keeps it
HoldSubscriptions(stationCode) ==
    /\ ~crashed
    /\ heldSubs' = [some |-> TRUE, station |-> ToUpper(stationCode),
                    list |-> GetStationSubscriptions(stationCode)]
    /\ UNCHANGED << storeVars, diskVars, saverVars, ingestVars, unsaved, lastOp,
                    sessionVars, parseVars, heldRecent, lockVars >>

\* a caller takes the list GetRecentMessages returns and keeps it
HoldRecent(stationCode) ==
    /\ ~crashed
    /\ heldRecent' = [some |-> TRUE, station |-> ToUpper(stationCode),
                      list |-> GetRecentMessages(stationCode)]
    /\ UNCHANGED << storeVars, diskVars, saverVars, ingestVars, unsaved, lastOp,
                    sessionVars, parseVars, heldSubs, lockVars >>

\* the lists the callers hold, as they find them now
HeldSubsNow ==
    Returned(heldSubs, MapGet(stationSubscribers, heldSubs.station, <<>>))

HeldRecentNow ==
    Returned(heldRecent, MapGet(recentMessages, heldRecent.station, <<>>))

\* ------------------------------------------------- the locks, call by call

\* the frame of a step that takes, holds or gives back a lock
LockFrame ==
    UNCHANGED << stationSubscribers, subsNil, recentMessages, filePath, crashed,
                 diskVars, loopPc, stopAutoSave, saves, restarts, ticks, unsaved,
                 lastSaved, crashedSaves, ingestVars, lastOp, sessionVars, parseVars,
                 readVars >>

\* a call of Lock that has not returned: RLock waits behind it
WriterWaits == \E w \in DOMAIN at : at[w] \in {"addLock", "mutLock"}

\* handleMessage begins: checkSequenceGaps when the sequence id parses, the
\* product info otherwise
StartMessage(u) ==
    /\ u = "ingest"
    /\ at[u] = "idle"
    /\ \E next \in {"seqLock", "parse"} : at' = [at EXCEPT ![u] = next]
    /\ UNCHANGED << mu, sequenceMu, autoSaveChan >>
    /\ LockFrame

\* checkSequenceGaps: client.sequenceMu.Lock()
SequenceLock(u) ==
    /\ at[u] = "seqLock"
    /\ sequenceMu = ""
    /\ sequenceMu' = u
    /\ at' = [at EXCEPT ![u] = "seqHeld"]
    /\ UNCHANGED << mu, autoSaveChan >>
    /\ LockFrame

\* checkSequenceGaps returns: the deferred client.sequenceMu.Unlock()
SequenceUnlock(u) ==
    /\ at[u] = "seqHeld"
    /\ sequenceMu' = ""
    /\ at' = [at EXCEPT ![u] = "parse"]
    /\ UNCHANGED << mu, autoSaveChan >>
    /\ LockFrame

\* handleMessage: returns when parseProductInfo fails, calls AddRecentMessage
\* otherwise
ParseInfo(u) ==
    /\ at[u] = "parse"
    /\ \E next \in {"idle", "addLock"} : at' = [at EXCEPT ![u] = next]
    /\ UNCHANGED << mu, sequenceMu, autoSaveChan >>
    /\ LockFrame

\* handleNoaaCommand begins an operation of the store: one that changes it
\* (subscribe, unsubscribe, unsubscribe all) or one that reads it
StartCommand(u) ==
    /\ u = "command"
    /\ at[u] = "idle"
    /\ \E next \in {"mutLock", "readRLock"} : at' = [at EXCEPT ![u] = next]
    /\ UNCHANGED << mu, sequenceMu, autoSaveChan >>
    /\ LockFrame

\* autoSaveLoop: the select takes a signal or a tick, with no lock held, and
\* calls Save
LoopWakes(u) ==
    /\ u = "loop"
    /\ at[u] = "idle"
    /\ \E signal \in BOOLEAN :
          IF signal
          THEN autoSaveChan > 0 /\ autoSaveChan' = autoSaveChan - 1
          ELSE UNCHANGED autoSaveChan
    /\ at' = [at EXCEPT ![u] = "saveRLock"]
    /\ UNCHANGED << mu, sequenceMu >>
    /\ LockFrame

\* sm.mu.Lock() returns: no reader and no writer holds the lock
MuLock(u) ==
    /\ at[u] \in {"addLock", "mutLock"}
    /\ mu = [writer |-> "", readers |-> {}]
    /\ mu' = [mu EXCEPT !.writer = u]
    /\ at' = [at EXCEPT ![u] = IF at[u] = "addLock" THEN "addHeld" ELSE "mutHeld"]
    /\ UNCHANGED << sequenceMu, autoSaveChan >>
    /\ LockFrame

\* triggerAutoSave, called with sm.mu held: a send that does not wait
SendUnderLock_Waiting(u) ==
    /\ at[u] = "mutHeld"
    /\ autoSaveChan < 1
    /\ autoSaveChan' = autoSaveChan + 1
    /\ at' = [at EXCEPT ![u] = "mutSent"]
    /\ UNCHANGED << mu, sequenceMu >>
    /\ LockFrame

SendUnderLock(u) ==
    /\ at[u] = "mutHeld"
    /\ autoSaveChan' = triggerAutoSave(autoSaveChan)
    /\ at' = [at EXCEPT ![u] = "mutSent"]
    /\ UNCHANGED << mu, sequenceMu >>
    /\ LockFrame

\* the deferred sm.mu.Unlock() of AddRecentMessage, after which handleMessage
\* goes on to deliverToSubscribers, and of the operations of a command
MuUnlock(u) ==
    /\ at[u] \in {"addHeld", "mutSent"}
    /\ mu.writer = u
    /\ mu' = [mu EXCEPT !.writer = ""]
    /\ at' = [at EXCEPT ![u] = IF at[u] = "addHeld" THEN "getRLock" ELSE "idle"]
    /\ UNCHANGED << sequenceMu, autoSaveChan >>
    /\ LockFrame

\* sm.mu.RLock() returns: no writer holds the lock and no call of Lock waits
MuRLock(u) ==
    /\ at[u] \in {"getRLock", "readRLock", "saveRLock"}
    /\ mu.writer = ""
    /\ ~WriterWaits
    /\ mu' = [mu EXCEPT !.readers = @ \cup {u}]
    /\ at' = [at EXCEPT ![u] = "readHeld"]
    /\ UNCHANGED << sequenceMu, autoSaveChan >>
    /\ LockFrame

\* the deferred sm.mu.RUnlock() of a getter and of Save
MuRUnlock(u) ==
    /\ at[u] = "readHeld"
    /\ u \in mu.readers
    /\ mu' = [mu EXCEPT !.readers = @ \ {u}]
    /\ at' = [at EXCEPT ![u] = "idle"]
    /\ UNCHANGED << sequenceMu, autoSaveChan >>
    /\ LockFrame

\* a step of unit u
UnitStep(u) ==
    \/ StartMessage(u)
    \/ SequenceLock(u)
    \/ SequenceUnlock(u)
    \/ ParseInfo(u)
    \/ StartCommand(u)
    \/ LoopWakes(u)
    \/ MuLock(u)
    \/ SendUnderLock(u)
    \/ MuUnlock(u)
    \/ MuRLock(u)
    \/ MuRUnlock(u)

\* the parsers and the catalog lookups, as parseProductInfo calls them for the
\* codes of an extension
Decode ==
    /\ ~decoded.done
    /\ LET w == ParseTtaaii(ext.Ttaaii)
           a == ParseAwipsID(ext.AwipsID)
       IN  decoded' = [done |-> TRUE, wmo |-> w, awips |-> a,
                       name |-> IF a.err THEN "" ELSE GetProductName(a),
                       category |-> IF a.err THEN "" ELSE GetProductCategory(a)]
    /\ UNCHANGED << storeVars, diskVars, saverVars, ingestVars, unsaved, lastOp,
                    sessionVars, ext, readVars, lockVars >>

\* ---------------------------------------------------------- the session

NWWSBoulder == "nwws-oi-bldr.weather.gov"
NWWSCollegePark == "nwws-oi-cprk.weather.gov"

\* MUCReconnectDelay, in seconds
MUCReconnectDelay == 5

MaxConnects == 2
MaxPending == 2

\* the process has not exited
Alive == mainPc \in {"new", "run", "wait"}

Probe(address, ok) == [site |-> address, ok |-> ok]

\* getAvailableNWWSIOSite: newClient, collegePark, boulder and disconnect are
\* the outcomes of xmpp.NewClient, of Connect to either site and of the
\* Disconnect that ends the probe
getAvailableNWWSIOSite(newClient, collegePark, boulder, disconnect) ==
    IF ~newClient
    THEN [probes |-> <<>>, site |-> "", err |-> TRUE]
    ELSE LET first == << Probe(NWWSCollegePark, collegePark) >>
             tried == IF collegePark THEN first
                      ELSE Append(first, Probe(NWWSBoulder, boulder))
             address == IF collegePark THEN NWWSCollegePark ELSE NWWSBoulder
         IN  IF ~collegePark /\ ~boulder
             THEN [probes |-> tried, site |-> "", err |-> TRUE]
             ELSE IF ~disconnect
             THEN [probes |-> tried, site |-> "", err |-> TRUE]
             ELSE [probes |-> tried, site |-> address, err |-> FALSE]

\* main up to c.Run: NewSeabirdClient connects to seabird-core and builds the
\* NWWS-IO client; an error of either is fatal
NewSeabirdClient(core, newClient, collegePark, boulder, disconnect) ==
    /\ mainPc = "new"
    /\ IF ~core
       THEN /\ mainPc' = "fatal"
            /\ fatalMsg' = "Failed to initialize seabird client"
            /\ UNCHANGED << probes, site >>
       ELSE LET r == getAvailableNWWSIOSite(newClient, collegePark, boulder, disconnect)
            IN  /\ probes' = r.probes
                /\ site' = r.site
                /\ mainPc' = IF r.err THEN "fatal" ELSE "run"
                /\ fatalMsg' = IF r.err THEN "Failed to initialize seabird client" ELSE ""
    /\ UNCHANGED << conn, connects, room, presences, rejoins, joinable, cancelFunc,
                    ctxDone, stopped, runErr, feedUnit, commandUnit, shutdownPc >>
    /\ UNCHANGED << storeVars, diskVars, saverVars, ingestVars, unsaved, lastOp, restVars >>

\* Run: makes the context and starts both units, then waits for them
Run ==
    /\ mainPc = "run"
    /\ mainPc' = "wait"
    /\ cancelFunc' = TRUE
    /\ feedUnit' = "running"
    /\ commandUnit' = "running"
    /\ UNCHANGED << fatalMsg, probes, site, conn, connects, room, presences, rejoins,
                    joinable, ctxDone, stopped, runErr, shutdownPc >>
    /\ UNCHANGED << storeVars, diskVars, saverVars, ingestVars, unsaved, lastOp, restVars >>

\* the outcomes Send can have for a join presence
SendOutcomes(up) ==
    IF ~up THEN {FALSE} ELSE IF joinable THEN {TRUE} ELSE BOOLEAN

\* joinMUC: sends the join presence; the room takes the session in when it is
\* joinable and answers with an error presence when it is not
joinMUC(sent) ==
    IF ~sent THEN UNCHANGED << room, presences >>
    ELSE IF joinable THEN room' = "joined" /\ UNCHANGED presences
    ELSE room' = "out" /\ presences' = presences + 1

\* the stream manager connects, at the start of NWWSClient.Run or after the
\* connection was lost, and calls nwwsioPostConnect
Connect(ok, sent) ==
    /\ mainPc = "wait"
    /\ feedUnit = "running"
    /\ conn = "down"
    /\ ~stopped
    /\ connects < MaxConnects
    /\ ok \/ connects = 0
    /\ sent \in SendOutcomes(TRUE)
    /\ IF ~ok
       THEN /\ feedUnit' = "returned"
            /\ runErr' = TRUE
            /\ ctxDone' = TRUE
            /\ UNCHANGED << conn, connects, room, presences, mainPc, fatalMsg >>
       ELSE /\ conn' = "up"
            /\ connects' = connects + 1
            /\ joinMUC(sent)
            /\ mainPc' = IF sent THEN mainPc ELSE "fatal"
            /\ fatalMsg' = IF sent THEN fatalMsg ELSE "Failed to join Multi-user Chat"
            /\ UNCHANGED << feedUnit, runErr, ctxDone >>
    /\ UNCHANGED << probes, site, rejoins, joinable, cancelFunc, stopped, commandUnit,
                    shutdownPc >>
    /\ UNCHANGED << storeVars, diskVars, saverVars, ingestVars, unsaved, lastOp, restVars >>

\* the connection to the site is lost
ConnectionLost ==
    /\ mainPc = "wait"
    /\ conn = "up"
    /\ ~stopped
    /\ connects < MaxConnects
    /\ conn' = "down"
    /\ room' = "out"
    /\ UNCHANGED << mainPc, fatalMsg, probes, site, connects, presences, rejoins,
                    joinable, cancelFunc, ctxDone, stopped, runErr, feedUnit,
                    commandUnit, shutdownPc >>
    /\ UNCHANGED << storeVars, diskVars, saverVars, ingestVars, unsaved, lastOp, restVars >>

\* the room sends an error presence
PresenceError ==
    /\ mainPc = "wait"
    /\ conn = "up"
    /\ presences + Len(rejoins) < MaxPending
    /\ room' = "out"
    /\ presences' = presences + 1
    /\ UNCHANGED << mainPc, fatalMsg, probes, site, conn, connects, rejoins, joinable,
                    cancelFunc, ctxDone, stopped, runErr, feedUnit, commandUnit,
                    shutdownPc >>
    /\ UNCHANGED << storeVars, diskVars, saverVars, ingestVars, unsaved, lastOp, restVars >>

\* the room becomes joinable, or stops being joinable
RoomOpens ==
    /\ ~joinable
    /\ joinable' = TRUE
    /\ UNCHANGED << mainPc, fatalMsg, probes, site, conn, connects, room, presences,
                    rejoins, cancelFunc, ctxDone, stopped, runErr, feedUnit,
                    commandUnit, shutdownPc >>
    /\ UNCHANGED << storeVars, diskVars, saverVars, ingestVars, unsaved, lastOp, restVars >>

RoomCloses ==
    /\ joinable
    /\ joinable' = FALSE
    /\ UNCHANGED << mainPc, fatalMsg, probes, site, conn, connects, room, presences,
                    rejoins, cancelFunc, ctxDone, stopped, runErr, feedUnit,
                    commandUnit, shutdownPc >>
    /\ UNCHANGED << storeVars, diskVars, saverVars, ingestVars, unsaved, lastOp, restVars >>

\* handlePresence, for an error presence of the room: starts a goroutine that
\* sleeps MUCReconnectDelay and then joins
handlePresence ==
    /\ mainPc = "wait"
    /\ conn = "up"
    /\ presences > 0
    /\ presences' = presences - 1
    /\ rejoins' = Append(rejoins, MUCReconnectDelay)
    /\ UNCHANGED << mainPc, fatalMsg, probes, site, conn, connects, room, joinable,
                    cancelFunc, ctxDone, stopped, runErr, feedUnit, commandUnit,
                    shutdownPc >>
    /\ UNCHANGED << storeVars, diskVars, saverVars, ingestVars, unsaved, lastOp, restVars >>

\* a second passes for the goroutines that sleep
SleepSecond ==
    /\ Alive
    /\ \E i \in 1..Len(rejoins) : rejoins[i] > 0
    /\ rejoins' = [i \in 1..Len(rejoins) |-> IF rejoins[i] > 0 THEN rejoins[i] - 1 ELSE 0]
    /\ UNCHANGED << mainPc, fatalMsg, probes, site, conn, connects, room, presences,
                    joinable, cancelFunc, ctxDone, stopped, runErr, feedUnit,
                    commandUnit, shutdownPc >>
    /\ UNCHANGED << storeVars, diskVars, saverVars, ingestVars, unsaved, lastOp, restVars >>

\* the goroutine of handlePresence after its sleep: one call of joinMUC, whose
\* error is logged
Rejoin(sent) ==
    /\ Alive
    /\ rejoins # <<>>
    /\ Head(rejoins) = 0
    /\ sent \in SendOutcomes(conn = "up")
    /\ joinMUC(sent)
    /\ rejoins' = Tail(rejoins)
    /\ UNCHANGED << mainPc, fatalMsg, probes, site, conn, connects, joinable,
                    cancelFunc, ctxDone, stopped, runErr, feedUnit, commandUnit,
                    shutdownPc >>
    /\ UNCHANGED << storeVars, diskVars, saverVars, ingestVars, unsaved, lastOp, restVars >>

\* Shutdown, called by the signal goroutine of main: cancels the context when
\* Run has made it, sends the unavailable presence, stops the stream manager
\* and closes the seabird client
Shutdown ==
    /\ mainPc \in {"run", "wait"}
    /\ shutdownPc = "wait"
    /\ ctxDone' = (ctxDone \/ cancelFunc)
    /\ room' = IF conn = "up" THEN "out" ELSE room
    /\ stopped' = TRUE
    /\ conn' = "down"
    /\ shutdownPc' = "done"
    /\ UNCHANGED << mainPc, fatalMsg, probes, site, connects, presences, rejoins,
                    joinable, cancelFunc, runErr, feedUnit, commandUnit >>
    /\ UNCHANGED << storeVars, diskVars, saverVars, ingestVars, unsaved, lastOp, restVars >>

\* os.Exit(0) of the signal goroutine, after Shutdown
OsExit ==
    /\ Alive
    /\ shutdownPc = "done"
    /\ mainPc' = "exit0"
    /\ UNCHANGED << fatalMsg, probes, site, conn, connects, room, presences, rejoins,
                    joinable, cancelFunc, ctxDone, stopped, runErr, feedUnit,
                    commandUnit, shutdownPc >>
    /\ UNCHANGED << storeVars, diskVars, saverVars, ingestVars, unsaved, lastOp, restVars >>

\* NWWSClient.Run returns when the stream manager was stopped
FeedUnitReturn ==
    /\ Alive
    /\ feedUnit = "running"
    /\ stopped
    /\ feedUnit' = "returned"
    /\ UNCHANGED << mainPc, fatalMsg, probes, site, conn, connects, room, presences,
                    rejoins, joinable, cancelFunc, ctxDone, stopped, runErr,
                    commandUnit, shutdownPc >>
    /\ UNCHANGED << storeVars, diskVars, saverVars, ingestVars, unsaved, lastOp, restVars >>

\* handleCommandEvents returns when it finds its context cancelled, or its
\* event stream closed by the Close of the seabird client
CommandUnitReturn ==
    /\ Alive
    /\ commandUnit = "running"
    /\ ctxDone \/ shutdownPc = "done"
    /\ commandUnit' = "returned"
    /\ UNCHANGED << mainPc, fatalMsg, probes, site, conn, connects, room, presences,
                    rejoins, joinable, cancelFunc, ctxDone, stopped, runErr, feedUnit,
                    shutdownPc >>
    /\ UNCHANGED << storeVars, diskVars, saverVars, ingestVars, unsaved, lastOp, restVars >>

\* g.Wait returns when both units have returned, Run returns what it got and
\* main ends: with log.Fatal for an error, by returning without one
MainReturn ==
    /\ mainPc = "wait"
    /\ feedUnit = "returned"
    /\ commandUnit = "returned"
    /\ mainPc' = IF runErr THEN "fatal" ELSE "returned"
    /\ fatalMsg' = IF runErr THEN "Failed to run client" ELSE fatalMsg
    /\ UNCHANGED << probes, site, conn, connects, room, presences, rejoins, joinable,
                    cancelFunc, ctxDone, stopped, runErr, feedUnit, commandUnit,
                    shutdownPc >>
    /\ UNCHANGED << storeVars, diskVars, saverVars, ingestVars, unsaved, lastOp, restVars >>

\* ------------------------------------------------------ specifications

\* no codes handed to the parsers yet, no list held by a caller, no lock held
NoExtension == [Ttaaii |-> "", AwipsID |-> ""]
NotDecoded == [done |-> FALSE]
NotHeld == [some |-> FALSE, station |-> "", list |-> <<>>]
NoHolder == [writer |-> "", readers |-> {}]

\* the units that use the locks: handleMessage, handleNoaaCommand, autoSaveLoop
Units == {"ingest", "command", "loop"}

\* the store, the files and the ingestion unit of a process that has started
InitProgram(primary, backup) ==
    /\ stationSubscribers = EmptyMap
    /\ subsNil = FALSE
    /\ recentMessages = EmptyMap
    /\ filePath = ""
    /\ autoSaveChan = 0
    /\ primaryFile = primary
    /\ backupFile = backup
    /\ crashed = FALSE
    /\ lastSequence = EmptyMap
    /\ pc = "idle"
    /\ cur = NoBulletin
    /\ info = NoInfo
    /\ subscriptions = <<>>
    /\ outbox = <<>>
    /\ status = "none"
    /\ now = 0
    /\ seqStatus = "none"
    /\ gapLog = <<>>
    /\ fed = EmptyMap
    /\ added = EmptyMap
    /\ sendErrors = <<>>
    /\ lastOp = NoOp
    /\ tmpFile = MissingFile
    /\ loopPc = "off"
    /\ stopAutoSave = FALSE
    /\ saves = [s \in Savers |-> NoSave]
    /\ restarts = 0
    /\ ticks = 0
    /\ unsaved = FALSE
    /\ lastSaved = NothingSaved
    /\ crashedSaves = {}
    /\ decoded = NotDecoded
    /\ heldSubs = NotHeld
    /\ heldRecent = NotHeld
    /\ mu = NoHolder
    /\ sequenceMu = ""
    /\ at = [u \in Units |-> "idle"]

\* the session of a process that runs: the primary site answered, both units are
\* started, the stream manager is connected and the room was joined
SessionRunning ==
    /\ mainPc = "wait"
    /\ fatalMsg = ""
    /\ probes = << Probe(NWWSCollegePark, TRUE) >>
    /\ site = NWWSCollegePark
    /\ conn = "up"
    /\ connects = 1
    /\ room = "joined"
    /\ presences = 0
    /\ rejoins = <<>>
    /\ joinable = TRUE
    /\ cancelFunc = TRUE
    /\ ctxDone = FALSE
    /\ stopped = FALSE
    /\ runErr = FALSE
    /\ feedUnit = "running"
    /\ commandUnit = "running"
    /\ shutdownPc = "wait"

InitWith(primary, backup) ==
    InitProgram(primary, backup) /\ SessionRunning /\ ext = NoExtension

Sub(userID, stationCode, filters) ==
    [userID |-> userID, stationCode |-> stationCode, filters |-> filters]

\* Spec: the client as it runs, the ingestion unit beside the commands that
\* change the store; persistence is off, as the client never turns it on
MaxBulletins == 2

Users == {"u1", "u2", "u3"}

Subscribes ==
    { Sub("u1", "karx", <<"all">>), Sub("u1", "KARX", <<"Warning", "cap">>),
      Sub("u2", "KARX", <<>>), Sub("u2", "KARX", <<"Hydrology">>),
      Sub("u3", "PAFC", <<"all">>) }

Unsubscribes == { Sub("u1", "KARX", <<>>), Sub("u3", "pafc", <<>>) }

GaugeBulletin ==
    Bulletin("KARX", "SRUS83", "2013-05-25T02:20:34Z", "RR8ARX", "10313.1", PlainText)

Bulletins ==
    { GaugeBulletin,
      Bulletin("KARX", "WFUS53", "2013-05-25T02:21:00Z", "TORARX ", "10313.2", TornadoXML),
      Bulletin("KARX", "XOUS53", "2013-05-25T02:22:00Z", "CAPARX", "10313.4", BrokenXML),
      Bulletin("PAFC", "NOUS43", "2013-05-25T02:23:00Z", "ZZ", "10313", EmptyAlertXML),
      Bulletin("KARX", "SRUS8", "2013-05-25T02:24:00Z", "RR8ARX", "10313.3", PlainText) }

Init == InitWith(MissingFile, MissingFile)

Next ==
    \/ \E s \in Subscribes : SubscribeToStation(s.userID, s.stationCode, s.filters)
    \/ \E s \in Unsubscribes : UnsubscribeFromStation(s.userID, s.stationCode)
    \/ \E u \in {"u2"} : UnsubscribeFromAll(u)
    \/ \E m \in Bulletins : Receive(m, MaxBulletins)
    \/ Record
    \/ Deliver({})

Spec == Init /\ [][Next]_vars

\* SpecSeq: the ingestion unit alone, fed bulletins that differ in their
\* compound sequence id: two origins, counters that skip, repeat and fall back,
\* ids that do not parse, and one bulletin that is dropped after the check
MaxSeqBulletins == 4

SeqBulletin(ttaaii, id) ==
    Bulletin("KARX", ttaaii, "2013-05-25T02:20:34Z", "RR8ARX", id, PlainText)

SeqBulletins ==
    { SeqBulletin("SRUS83", "10313.1"), SeqBulletin("SRUS83", "10313.2"),
      SeqBulletin("SRUS83", "10313.4"), SeqBulletin("SRUS83", "777.3"),
      SeqBulletin("SRUS83", "10313"), SeqBulletin("SRUS83", "10313.x4"),
      SeqBulletin("SRUS8", "777.1") }

NextSeq ==
    \/ \E m \in SeqBulletins : Receive(m, MaxSeqBulletins)
    \/ Record
    \/ Deliver({})

SpecSeq == Init /\ [][NextSeq]_vars

\* SpecRecent: enough bulletins of two stations to fill a ring and evict from
\* it, beside commands that change the subscriptions
MaxRecentBulletins == 7

RecentBulletins ==
    { GaugeBulletin,
      Bulletin("pafc", "NOUS43", "2013-05-25T02:23:00Z", "PNSAFC", "10313.2", PlainText) }

RecentSubscribes == { Sub("u1", "KARX", <<"all">>) }

NextRecent ==
    \/ \E s \in RecentSubscribes : SubscribeToStation(s.userID, s.stationCode, s.filters)
    \/ \E s \in RecentSubscribes : UnsubscribeFromStation(s.userID, s.stationCode)
    \/ \E m \in RecentBulletins : Receive(m, MaxRecentBulletins)
    \/ Record
    \/ Deliver({})

SpecRecent == Init /\ [][NextRecent]_vars

\* SpecStore: the store with persistence turned on, over the files that may lie
\* at the persistence path when Load reads them
OneEntryDoc ==
    [s \in {"KARX"} |-> <<[UserID |-> "u2", Filters |-> <<"cap">>]>>]

TwoEntriesDoc ==
    [s \in {"KARX"} |-> <<[UserID |-> "u1", Filters |-> <<"cap">>],
                          [UserID |-> "u1", Filters |-> <<"all">>]>>]

PrimaryFiles ==
    { MissingFile, UnreadableFile, CorruptFile, NullFile,
      MapFile(OneEntryDoc), MapFile(TwoEntriesDoc) }

BackupFiles == { MissingFile, CorruptFile, MapFile(OneEntryDoc) }

StoreSubscribes ==
    { Sub("u1", "karx", <<"all">>), Sub("u1", "KARX", <<"Warning", "cap">>),
      Sub("u2", "KARX", <<>>), Sub("u3", "PAFC", <<"all">>) }

InitStore == \E p \in PrimaryFiles, b \in BackupFiles : InitWith(p, b)

NextStore ==
    \/ \E s \in StoreSubscribes : SubscribeToStation(s.userID, s.stationCode, s.filters)
    \/ \E s \in Unsubscribes : UnsubscribeFromStation(s.userID, s.stationCode)
    \/ \E u \in {"u1", "u2"} : UnsubscribeFromAll(u)
    \/ \E path \in {"subscriptions.json"} : SetPersistenceFile(path)
    \/ Load

SpecStore == InitStore /\ [][NextStore]_vars

\* SpecAlert: bulletins that carry an alert, a broken alert envelope, a
\* product code or a meteorological code that does not parse, sent to cap, all
\* and category subscribers through a sink that may fail for a user
MaxAlertBulletins == 2

TornadoBulletin ==
    Bulletin("KARX", "WFUS53", "2013-05-25T02:21:00Z", "TORARX", "10313.1", TornadoXML)

BrokenEnvelopeBulletin ==
    Bulletin("KARX", "XOUS53", "2013-05-25T02:22:00Z", "CAPARX", "10313.2", BrokenXML)

ShortAwipsBulletin ==
    Bulletin("KARX", "NOUS43", "2013-05-25T02:23:00Z", " ZZ ", "10313.3", PlainText)

ShortTtaaiiBulletin ==
    Bulletin("KARX", "SRUS8", "2013-05-25T02:24:00Z", "RR8ARX", "10313.4", PlainText)

AlertBulletins ==
    { TornadoBulletin, BrokenEnvelopeBulletin, ShortAwipsBulletin, ShortTtaaiiBulletin }

AlertSubscribes ==
    { Sub("u1", "KARX", <<"cap">>), Sub("u2", "KARX", <<"all">>),
      Sub("u3", "KARX", <<"Administrative">>) }

AlertUnsubscribes == { Sub("u2", "KARX", <<>>) }

SinkFailures == { {}, {"u1"}, {"u2"} }

NextAlert ==
    \/ \E s \in AlertSubscribes : SubscribeToStation(s.userID, s.stationCode, s.filters)
    \/ \E s \in AlertUnsubscribes : UnsubscribeFromStation(s.userID, s.stationCode)
    \/ \E m \in AlertBulletins : Receive(m, MaxAlertBulletins)
    \/ Record
    \/ \E failing \in SinkFailures : Deliver(failing)

SpecAlert == Init /\ [][NextAlert]_vars

\* SpecSave: the store with persistence on: the commands, the autosave loop,
\* Close, the steps of Save, and the process killed and started again
MaxRestarts == 1
MaxTicks == 1

SaveSubscribes == { Sub("u1", "KARX", <<"Warning", "all">>) }

SaveUnsubscribes == { Sub("u1", "karx", <<>>) }

SavedFiles ==
    { <<MissingFile, MissingFile>>, <<MapFile(OneEntryDoc), MissingFile>>,
      <<CorruptFile, MapFile(OneEntryDoc)>> }

InitSave == \E f \in SavedFiles : InitWith(f[1], f[2])

SaveStep(s) ==
    \/ SaveBegin(s)
    \/ SaveBackup(s)
    \/ SaveBackupDone(s)
    \/ SaveTmp(s)
    \/ SaveTmpDone(s)
    \/ SaveRename(s)

NextSave ==
    \/ \E s \in SaveSubscribes : SubscribeToStation(s.userID, s.stationCode, s.filters)
    \/ \E s \in SaveUnsubscribes : UnsubscribeFromStation(s.userID, s.stationCode)
    \/ \E u \in {"u2"} : UnsubscribeFromAll(u)
    \/ \E path \in {"subscriptions.json"} : SetPersistenceFile(path)
    \/ Load
    \/ LoopSignal
    \/ LoopTick(MaxTicks)
    \/ SaveStep("loop")
    \/ KillAndRestart(MaxRestarts)

SpecSave == InitSave /\ [][NextSave]_vars

\* SpecSaveLive: the commands and the autosave loop of a process that keeps
\* running; the loop takes a pending signal and goes through Save whenever it can
LiveSubscribes ==
    { Sub("u1", "KARX", <<"all">>), Sub("u2", "karx", <<>>) }

LiveUnsubscribes == { Sub("u1", "karx", <<>>) }

NextSaveLive ==
    \/ \E s \in LiveSubscribes : SubscribeToStation(s.userID, s.stationCode, s.filters)
    \/ \E s \in LiveUnsubscribes : UnsubscribeFromStation(s.userID, s.stationCode)
    \/ \E u \in {"u2"} : UnsubscribeFromAll(u)
    \/ \E path \in {"subscriptions.json"} : SetPersistenceFile(path)
    \/ LoopSignal
    \/ LoopTick(MaxTicks)
    \/ SaveStep("loop")

SpecSaveLive ==
    /\ Init
    /\ [][NextSaveLive]_vars
    /\ WF_vars(LoopSignal)
    /\ WF_vars(SaveStep("loop"))

\* SpecDebounce: the commands beside the autosave loop and Close, with the
\* loop not started, at its select, in Save, and returned
DebounceSubscribes == { Sub("u1", "KARX", <<"all">>) }

DebounceUnsubscribes == { Sub("u1", "karx", <<>>) }

NextDebounce ==
    \/ \E s \in DebounceSubscribes : SubscribeToStation(s.userID, s.stationCode, s.filters)
    \/ \E s \in DebounceUnsubscribes : UnsubscribeFromStation(s.userID, s.stationCode)
    \/ \E u \in {"u1"} : UnsubscribeFromAll(u)
    \/ \E path \in {"subscriptions.json"} : SetPersistenceFile(path)
    \/ LoopSignal
    \/ LoopTick(MaxTicks)
    \/ LoopStop
    \/ Close
    \/ \E s \in Savers : SaveStep(s)

SpecDebounce == Init /\ [][NextDebounce]_vars

\* SpecSaveFail: the commands and the ingestion unit beside an autosave loop
\* whose Save may fail at any of its file operations
MaxFailBulletins == 1

NextSaveFail ==
    \/ \E s \in DebounceSubscribes : SubscribeToStation(s.userID, s.stationCode, s.filters)
    \/ \E s \in DebounceUnsubscribes : UnsubscribeFromStation(s.userID, s.stationCode)
    \/ \E u \in {"u1"} : UnsubscribeFromAll(u)
    \/ \E path \in {"subscriptions.json"} : SetPersistenceFile(path)
    \/ \E m \in {GaugeBulletin} : Receive(m, MaxFailBulletins)
    \/ Record
    \/ Deliver({})
    \/ LoopSignal
    \/ LoopTick(MaxTicks)
    \/ SaveStep("loop")
    \/ SaveFail("loop")

SpecSaveFail == Init /\ [][NextSaveFail]_vars

\* SpecKeys: station codes in either letter case, from the commands, from the
\* feed and from the keys of a persisted file
MaxKeyBulletins == 1

LowerKeyDoc ==
    [s \in {"karx"} |-> <<[UserID |-> "u2", Filters |-> <<"all">>]>>]

KeySubscribes == { Sub("u1", "karx", <<"all">>), Sub("u1", "Pafc", <<"cap">>) }

KeyUnsubscribes == { Sub("u2", "KARX", <<>>), Sub("u1", "kArX", <<>>) }

KeyBulletins ==
    { GaugeBulletin, [GaugeBulletin EXCEPT !.Cccc = "karx"] }

InitKeys ==
    \E p \in { MissingFile, MapFile(OneEntryDoc), MapFile(LowerKeyDoc) } :
        InitWith(p, MissingFile)

NextKeys ==
    \/ \E s \in KeySubscribes : SubscribeToStation(s.userID, s.stationCode, s.filters)
    \/ \E s \in KeyUnsubscribes : UnsubscribeFromStation(s.userID, s.stationCode)
    \/ \E u \in {"u2"} : UnsubscribeFromAll(u)
    \/ \E path \in {"subscriptions.json"} : SetPersistenceFile(path)
    \/ Load
    \/ \E m \in KeyBulletins : Receive(m, MaxKeyBulletins)
    \/ Record
    \/ Deliver({})

SpecKeys == InitKeys /\ [][NextKeys]_vars

\* SpecCommands: !noaa commands with station codes and filters that pass and
\* that fail validation, beside a bulletin that fills the recent history
MaxCommandBulletins == 1

Commands ==
    { [userID |-> "u1", args |-> <<"subscribe", "station", "KARX">>],
      [userID |-> "u1", args |-> <<"subscribe", "station", "karx", "Warning,cap">>],
      [userID |-> "u2", args |-> <<"Subscribe", "STATION", "pafc", "all">>],
      [userID |-> "u2", args |-> <<"subscribe", "station", "XARX", "all">>],
      [userID |-> "u2", args |-> <<"subscribe", "station", "KAR">>],
      [userID |-> "u2", args |-> <<"subscribe", "station", "KARXX", "cap">>],
      [userID |-> "u1", args |-> <<"subscribe", "station", "KARX", "bogus">>],
      [userID |-> "u1", args |-> <<"subscribe", "station", "KARX", "all,tornado", "cap">>],
      [userID |-> "u2", args |-> <<"subscribe", "station", "KAR", "bogus">>],
      [userID |-> "u2", args |-> <<"subscribe", "zip", "KARX", "all">>],
      [userID |-> "u2", args |-> <<"subscribe", "station">>],
      [userID |-> "u1", args |-> <<"unsubscribe", "station", "karx">>],
      [userID |-> "u2", args |-> <<"unsubscribe", "all">>],
      [userID |-> "u1", args |-> <<"list">>],
      [userID |-> "u1", args |-> <<>>] }

NextCommands ==
    \/ \E c \in Commands : handleNoaaCommand(c.userID, c.args)
    \/ \E m \in {GaugeBulletin} : Receive(m, MaxCommandBulletins)
    \/ Record
    \/ Deliver({})

SpecCommands == Init /\ [][NextCommands]_vars

\* the process from its start: site probing, the two units, the connection
\* and the room, the signal
SessionNew ==
    /\ mainPc = "new"
    /\ fatalMsg = ""
    /\ probes = <<>>
    /\ site = ""
    /\ conn = "down"
    /\ connects = 0
    /\ room = "out"
    /\ presences = 0
    /\ rejoins = <<>>
    /\ joinable \in BOOLEAN
    /\ cancelFunc = FALSE
    /\ ctxDone = FALSE
    /\ stopped = FALSE
    /\ runErr = FALSE
    /\ feedUnit = "idle"
    /\ commandUnit = "idle"
    /\ shutdownPc = "wait"

InitSession == InitProgram(MissingFile, MissingFile) /\ SessionNew /\ ext = NoExtension

NextSession ==
    \/ \E core, newClient, collegePark, boulder, disconnect \in BOOLEAN :
          NewSeabirdClient(core, newClient, collegePark, boulder, disconnect)
    \/ Run
    \/ \E ok, sent \in BOOLEAN : Connect(ok, sent)
    \/ ConnectionLost
    \/ PresenceError
    \/ RoomOpens
    \/ RoomCloses
    \/ handlePresence
    \/ SleepSecond
    \/ \E sent \in BOOLEAN : Rejoin(sent)
    \/ Shutdown
    \/ OsExit
    \/ FeedUnitReturn
    \/ CommandUnitReturn
    \/ MainReturn

SpecSession == InitSession /\ [][NextSession]_vars

\* a running process with persistence on: commands, the autosave loop and the
\* signal
ShutdownCommands ==
    { [userID |-> "u1", args |-> <<"subscribe", "station", "KARX">>],
      [userID |-> "u2", args |-> <<"subscribe", "station", "pafc", "all">>],
      [userID |-> "u1", args |-> <<"unsubscribe", "station", "karx">>] }

NextShutdown ==
    \/ \E c \in ShutdownCommands :
          Alive /\ commandUnit = "running" /\ handleNoaaCommand(c.userID, c.args)
    \/ Alive /\ SetPersistenceFile("subscriptions.json")
    \/ Alive /\ LoopSignal
    \/ Alive /\ LoopTick(MaxTicks)
    \/ Alive /\ SaveStep("loop")
    \/ Shutdown
    \/ OsExit
    \/ FeedUnitReturn
    \/ CommandUnitReturn
    \/ MainReturn

SpecShutdown == Init /\ [][NextShutdown]_vars

\* a running process whose room sends error presences, with the scheduling of
\* the goroutines and a room that opens when it is closed
MaxRejoinBulletins == 1

NextRejoin ==
    \/ PresenceError
    \/ RoomOpens
    \/ RoomCloses
    \/ handlePresence
    \/ SleepSecond
    \/ \E sent \in BOOLEAN : Rejoin(sent)
    \/ \E m \in {GaugeBulletin} : Receive(m, MaxRejoinBulletins)
    \/ Record
    \/ Deliver({})

SpecRejoin ==
    /\ Init
    /\ [][NextRejoin]_vars
    /\ WF_vars(handlePresence)
    /\ WF_vars(SleepSecond)
    /\ WF_vars(\E sent \in BOOLEAN : Rejoin(sent))
    /\ WF_vars(RoomOpens)

\* a store that loads files of every kind, among them a document whose entry
\* has no filters, and then takes subscribes, unsubscribes and a bulletin
MaxFileBulletins == 1

EmptyFiltersDoc ==
    [s \in {"KARX"} |-> <<[UserID |-> "u2", Filters |-> <<>>]>>]

FilePrimaries ==
    { MissingFile, CorruptFile, NullFile, MapFile(OneEntryDoc), MapFile(EmptyFiltersDoc) }

FileBackups == { MissingFile, NullFile, MapFile(OneEntryDoc) }

FileSubscribes ==
    { Sub("u1", "karx", <<"Warning", "CAP">>), Sub("u1", "KARX", <<>>),
      Sub("u2", "KARX", <<"all">>), Sub("u3", "pafc", <<"all">>) }

FileUnsubscribes == { Sub("u1", "KARX", <<>>) }

InitFiles == \E p \in FilePrimaries, b \in FileBackups : InitWith(p, b)

NextFiles ==
    \/ \E s \in FileSubscribes : SubscribeToStation(s.userID, s.stationCode, s.filters)
    \/ \E s \in FileUnsubscribes : UnsubscribeFromStation(s.userID, s.stationCode)
    \/ \E path \in {"subscriptions.json"} : SetPersistenceFile(path)
    \/ Load
    \/ \E m \in {GaugeBulletin} : Receive(m, MaxFileBulletins)
    \/ Record
    \/ Deliver({})

SpecFiles == InitFiles /\ [][NextFiles]_vars

\* the codes the parsers are given: of the right length, too short, too long,
\* with white space around them, with a prefix the catalog does not have
TtaaiiCodes ==
    { "SRUS83", "WFUS53", "NOUS43", "SRUS8", "SRUS833", "", " SRUS8", "SRUS83 " }

AwipsCodes ==
    { "RR8ARX", "TORARX ", " ZZ ", "ZZ", "", "TOR", "\tTORAR\n", "ZZZARX", "   ",
      "  RR8" }

InitCodes ==
    /\ InitProgram(MissingFile, MissingFile)
    /\ SessionRunning
    /\ \E t \in TtaaiiCodes, a \in AwipsCodes : ext = [Ttaaii |-> t, AwipsID |-> a]

NextCodes == Decode

SpecCodes == InitCodes /\ [][NextCodes]_vars

\* SpecLocks: handleMessage, handleNoaaCommand and autoSaveLoop, each at one
\* of its calls of the locks or between two of them
NextLocks == \E u \in Units : UnitStep(u)

SpecLocks == Init /\ [][NextLocks]_vars

\* SpecHeld: callers that keep the lists the getters returned, beside commands
\* and bulletins that change the store
MaxHeldBulletins == 2

HeldSubscribes == { Sub("u1", "KARX", <<"all">>), Sub("u2", "karx", <<>>) }

NextHeld ==
    \/ \E s \in HeldSubscribes : SubscribeToStation(s.userID, s.stationCode, s.filters)
    \/ \E s \in HeldSubscribes : UnsubscribeFromStation(s.userID, s.stationCode)
    \/ \E u \in {"u2"} : UnsubscribeFromAll(u)
    \/ Receive(GaugeBulletin, MaxHeldBulletins)
    \/ Record
    \/ Deliver({})
    \/ \E c \in {"karx"} : HoldSubscriptions(c)
    \/ \E c \in {"karx"} : HoldRecent(c)

SpecHeld == Init /\ [][NextHeld]_vars

\* SpecRestart: a process that subscribes, takes bulletins and saves, is killed
\* and started again, and loads what the files hold
MaxRestartBulletins == 1

RestartSubscribes == { Sub("u1", "PAFC", <<"all">>) }

NextRestart ==
    \/ \E s \in RestartSubscribes : SubscribeToStation(s.userID, s.stationCode, s.filters)
    \/ \E path \in {"subscriptions.json"} : SetPersistenceFile(path)
    \/ Load
    \/ LoopSignal
    \/ SaveStep("loop")
    \/ Receive(GaugeBulletin, MaxRestartBulletins)
    \/ Record
    \/ Deliver({})
    \/ KillAndRestart(MaxRestarts)

SpecRestart == Init /\ [][NextRestart]_vars

\* ------------------------------------------------------------- claims

\* what the claims say of a bulletin, stated from the bulletin itself
CarriedAlert(m) ==
    Contains(m.Text, "<alert") /\ ~XmlUnmarshalAlert(TrimSpace(m.Text)).err

MatchesBulletin(filters, category, carriedAlert) ==
    \E k \in 1..Len(filters) :
        \/ filters[k] = "all"
        \/ filters[k] = "cap" /\ carriedAlert
        \/ ToLower(filters[k]) = ToLower(category)

SendsTo(box, u) == {j \in 1..Len(box) : box[j].UserID = u}

LastOf(s) == s[Len(s)]

\* C2: a subscription matches a bulletin if and only if one of its filters is
\* all, or is cap while the bulletin carried a decoded alert, or equals the
\* derived category compared case-insensitively: of the subscriptions read for
\* a delivered bulletin, exactly the matching ones were sent to; a ["cap"]
\* subscription is sent only alert bulletins, an ["all"] one every bulletin.
C2_MatchIffFilter ==
    status = "delivered" =>
        \A i \in 1..Len(subscriptions) :
            LET sub == subscriptions[i]
                sent == SendsTo(outbox, sub.UserID) # {}
            IN  /\ sent <=> MatchesBulletin(sub.Filters, info.productCategory, CarriedAlert(cur))
                /\ sub.Filters = <<"cap">> => (sent <=> CarriedAlert(cur))
                /\ sub.Filters = <<"all">> => sent

C2_Witness ==
    /\ status = "delivered"
    /\ ~CarriedAlert(cur)
    /\ \E i, j \in 1..Len(subscriptions) :
          /\ subscriptions[i].Filters = <<"hydrology">>
          /\ SendsTo(outbox, subscriptions[i].UserID) # {}
          /\ subscriptions[j].Filters = <<"warning", "cap">>
          /\ SendsTo(outbox, subscriptions[j].UserID) = {}

\* C3: when a bulletin is delivered, each user who holds a matching
\* subscription on the bulletin's station (in the store, at the moment the
\* subscriptions are read) is sent exactly one message, every recipient is sent
\* the same text, and a user with no matching subscription there is sent nothing.
C3_OneMessagePerMatchingSubscriber ==
    [][ (pc = "deliver" /\ pc' = "idle") =>
          LET held == MapGet(stationSubscribers, ToUpper(cur.Cccc), <<>>)
              matching(u) == \E i \in 1..Len(held) :
                                /\ held[i].UserID = u
                                /\ MatchesBulletin(held[i].Filters, info.productCategory,
                                                   CarriedAlert(cur))
          IN  /\ \A u \in Users :
                    Cardinality(SendsTo(outbox', u)) = IF matching(u) THEN 1 ELSE 0
              /\ \A j \in 1..Len(outbox') : outbox'[j].UserID \in Users
              /\ \A j, k \in 1..Len(outbox') : outbox'[j].Text = outbox'[k].Text
      ]_vars

C3_Witness ==
    /\ status = "delivered"
    /\ cur.Cccc = "KARX"
    /\ Len(outbox) = 2
    /\ outbox[1].UserID # outbox[2].UserID
    /\ outbox[1].Text = outbox[2].Text
    /\ "PAFC" \in DOMAIN stationSubscribers

\* C6: sequence tracking never blocks or drops delivery.  A bulletin is dropped
\* only when its product identity does not parse; a bulletin whose sequence id
\* does not parse, or on which a gap is found, is stored in the recent history
\* and sent to the matching subscribers like any other; and receiving a
\* bulletin whose sequence id does not parse leaves the tracker unchanged.
C6_SequenceNeverBlocks ==
    [][ /\ (pc = "idle" /\ now' = now + 1 /\ GetSequenceID(cur'.ID).err) =>
              /\ lastSequence' = lastSequence
              /\ gapLog' = gapLog
        /\ (pc = "idle" /\ now' = now + 1) =>
              (status' = "dropped" <=> ParseTtaaii(cur'.Ttaaii).err)
        /\ (pc = "deliver" /\ pc' = "idle" /\ seqStatus \in {"unparsed", "gap"}) =>
              /\ Len(GetRecentMessages(cur.Cccc)) > 0
              /\ LastOf(GetRecentMessages(cur.Cccc)) = RecentOf(cur, info, now)
              /\ \A i \in 1..Len(subscriptions') :
                    SendsTo(outbox', subscriptions'[i].UserID) # {}
                        <=> MatchesBulletin(subscriptions'[i].Filters, info.productCategory,
                                            CarriedAlert(cur))
      ]_vars

C6_Witness ==
    /\ status = "delivered"
    /\ seqStatus = "unparsed"
    /\ Len(outbox) > 0
    /\ lastSequence # EmptyMap
    /\ LastOf(GetRecentMessages(cur.Cccc)).Text = cur.Text

\* C9: every bulletin that is processed is appended to the recent history of
\* its station, whether or not anyone is subscribed to the station, and the
\* append comes before any send: nothing has been sent while the bulletin
\* waits to be stored, and from then on it is the newest entry of its station.
C9_RecordedBeforeSend ==
    /\ pc = "record" => outbox = <<>>
    /\ (pc = "deliver" \/ status = "delivered" \/ outbox # <<>>) =>
          /\ Len(GetRecentMessages(cur.Cccc)) > 0
          /\ LastOf(GetRecentMessages(cur.Cccc)) = RecentOf(cur, info, now)

C9_Witness ==
    /\ status = "delivered"
    /\ subscriptions = <<>>
    /\ stationSubscribers = EmptyMap
    /\ LastOf(GetRecentMessages(cur.Cccc)) = RecentOf(cur, info, now)

\* C10: for the bulletin from KARX with meteorological code SRUS83, product
\* code RR8ARX and plain text, a KARX subscriber with filters ["cap"] is sent
\* nothing and a KARX subscriber with filters ["all"] is sent exactly one
\* message, which contains KARX and RR8ARX.
C10_GaugeBulletinEndToEnd ==
    (status = "delivered" /\ cur = GaugeBulletin) =>
        \A i \in 1..Len(subscriptions) :
            LET sub == subscriptions[i]
                got == SendsTo(outbox, sub.UserID)
            IN  /\ sub.Filters = <<"cap">> => got = {}
                /\ sub.Filters = <<"all">> =>
                      /\ Cardinality(got) = 1
                      /\ \A j \in got : /\ Contains(outbox[j].Text, "KARX")
                                        /\ Contains(outbox[j].Text, "RR8ARX")

C10_Witness ==
    /\ status = "delivered"
    /\ cur = GaugeBulletin
    /\ \E i, j \in 1..Len(subscriptions) :
          /\ subscriptions[i].Filters = <<"cap">>
          /\ subscriptions[j].Filters = <<"all">>
    /\ Len(outbox) = 1

\* the gaps that checkSequenceGaps logged for one origin, in order
RECURSIVE GapsOf(_, _)
GapsOf(log, origin) ==
    IF Len(log) = 0 THEN <<>>
    ELSE (IF Head(log).processID = origin THEN <<Head(log)>> ELSE <<>>)
         \o GapsOf(Tail(log), origin)

\* the gaps the counters observed for one origin call for, from observation i on
RECURSIVE GapsDue(_, _, _)
GapsDue(origin, counters, i) ==
    IF i > Len(counters) THEN <<>>
    ELSE (IF counters[i] # counters[i - 1] + 1
          THEN <<[processID |-> origin, expected |-> counters[i - 1] + 1,
                  received |-> counters[i],
                  missedCount |-> counters[i] - (counters[i - 1] + 1)]>>
          ELSE <<>>)
         \o GapsDue(origin, counters, i + 1)

\* C4: the gaps logged for an origin are, in order, exactly one for each of its
\* observations after the first whose counter is not the one before plus 1,
\* each with missed count = counter - (the one before + 1); an origin's first
\* observation and the observations of other origins log nothing for it; after
\* 1, 2, 4 for one origin the only gap is the one at 4, with missed count 1.
C4_GapExactlyOnSkip ==
    /\ \A origin \in DOMAIN fed :
          GapsOf(gapLog, origin) = GapsDue(origin, fed[origin], 2)
    /\ \A i \in 1..Len(gapLog) : gapLog[i].processID \in DOMAIN fed
    /\ \A origin \in DOMAIN fed :
          fed[origin] = <<1, 2, 4>> =>
             GapsOf(gapLog, origin) =
                <<[processID |-> origin, expected |-> 3, received |-> 4, missedCount |-> 1]>>

C4_Witness ==
    /\ "10313" \in DOMAIN fed
    /\ "777" \in DOMAIN fed
    /\ fed["10313"] = <<1, 2, 4>>
    /\ Len(gapLog) = 1
    /\ gapLog[1].received = 4
    /\ gapLog[1].missedCount = 1

\* C5: after every bulletin whose sequence id parses the tracker holds, for
\* that origin, that bulletin's counter: for every origin the last counter
\* observed, also when it is lower than or equal to the one before.
C5_TrackerFollowsLatest ==
    /\ DOMAIN lastSequence = DOMAIN fed
    /\ \A origin \in DOMAIN fed : lastSequence[origin] = LastOf(fed[origin])
    /\ (seqStatus \in {"first", "inorder", "gap"}) =>
          LET seq == Split(cur.ID, ".")
          IN  /\ seq[1] \in DOMAIN lastSequence
              /\ lastSequence[seq[1]] = Atoi(seq[2]).val

C5_Witness ==
    /\ seqStatus = "gap"
    /\ \E origin \in DOMAIN fed :
          /\ Len(fed[origin]) >= 2
          /\ LastOf(fed[origin]) <= fed[origin][Len(fed[origin]) - 1]
          /\ lastSequence[origin] = LastOf(fed[origin])

\* C7: in every reachable state the ring of every station holds at most 5
\* messages.
C7_RingAtMostFive ==
    \A station \in DOMAIN recentMessages : Len(recentMessages[station]) <= 5

C7_Witness ==
    \E station \in DOMAIN recentMessages :
        /\ Len(recentMessages[station]) = 5
        /\ Len(added[station]) > 5

\* the last k elements of s, or all of s when it has fewer
LastN(s, k) == IF Len(s) <= k THEN s ELSE SubSeq(s, Len(s) - k + 1, Len(s))

\* C8: after n messages were added for a station, whatever else was done in
\* between, GetRecentMessages returns the last min(n, 5) of them, oldest first,
\* under either case of the station code; after 7 it returns the 3rd to the 7th.
C8_RingHoldsLastFive ==
    /\ DOMAIN recentMessages = DOMAIN added
    /\ \A station \in DOMAIN added :
          /\ GetRecentMessages(station) = LastN(added[station], 5)
          /\ GetRecentMessages(ToLower(station)) = LastN(added[station], 5)
          /\ Len(added[station]) = 7 =>
                GetRecentMessages(station) =
                   << added[station][3], added[station][4], added[station][5],
                      added[station][6], added[station][7] >>
    /\ \A station \in {"KARX", "PAFC", "KMPX"} :
          station \notin DOMAIN added => GetRecentMessages(station) = <<>>

C8_Witness ==
    /\ "KARX" \in DOMAIN added
    /\ Len(added["KARX"]) = 7
    /\ Len(GetRecentMessages("karx")) = 5
    /\ GetRecentMessages("karx")[1] = added["KARX"][3]
    /\ lastOp.name # "none"

\* C1: the store holds at most one subscription for each user under each
\* station, and once SubscribeToStation has returned, the user's subscription
\* under that station is the one just made, with its filters (lower-cased, cap
\* when none were given).
C1_OneEntryPerUserAndStation ==
    ~crashed =>
       /\ \A station \in DOMAIN stationSubscribers :
             \A i, j \in 1..Len(stationSubscribers[station]) :
                stationSubscribers[station][i].UserID = stationSubscribers[station][j].UserID
                   => i = j
       /\ (lastOp.name = "subscribe") =>
             LET subs == GetStationSubscriptions(lastOp.stationCode)
                 mine == {i \in 1..Len(subs) : subs[i].UserID = lastOp.userID}
             IN  /\ Cardinality(mine) = 1
                 /\ \A i \in mine : subs[i].Filters = NormalizeFilters(lastOp.filters)

\* the first Info block of the alert in the text of a bulletin of the model
FirstInfoOf(m) == XmlUnmarshalAlert(TrimSpace(m.Text)).alert.Info[1]

\* C11: when a bulletin whose text holds an alert envelope with event Tornado
\* Warning and severity Extreme in its first Info block is delivered, every
\* subscriber of the station with a cap filter is sent one message, and the
\* message names that event and that severity in its heading, before the body.
C11_CapSubscriberGetsEventAndSeverity ==
    (status = "delivered" /\ CarriedAlert(cur)
        /\ Len(XmlUnmarshalAlert(TrimSpace(cur.Text)).alert.Info) > 0
        /\ FirstInfoOf(cur).Event = "Tornado Warning"
        /\ FirstInfoOf(cur).Severity = "Extreme") =>
       \A i \in 1..Len(subscriptions) :
          (\E k \in 1..Len(subscriptions[i].Filters) : subscriptions[i].Filters[k] = "cap") =>
             /\ Cardinality(SendsTo(outbox, subscriptions[i].UserID)) = 1
             /\ \A j \in SendsTo(outbox, subscriptions[i].UserID) :
                   /\ HasPrefix(outbox[j].Text,
                                "[" \o cur.Cccc \o "] Tornado Warning\nSeverity: Extreme | ")
                   /\ Contains(outbox[j].Text, "Tornado Warning")
                   /\ Contains(outbox[j].Text, "Extreme")

C11_Witness ==
    /\ status = "delivered"
    /\ cur = TornadoBulletin
    /\ \E i \in 1..Len(subscriptions) :
          /\ subscriptions[i].Filters = <<"cap">>
          /\ SendsTo(outbox, subscriptions[i].UserID) # {}

\* what is malformed in a bulletin, stated from the bulletin itself
BadMeteoCode(m) == Len(m.Ttaaii) # 6
BadProductCode(m) == Len(TrimSpace(m.AwipsID)) < 3
BadEnvelope(m) == Contains(m.Text, "<alert") /\ XmlUnmarshalAlert(TrimSpace(m.Text)).err

\* handleMessage has returned for cur
Handled == status \in {"delivered", "dropped"}

\* cur was stored in the recent history of its station and sent to every
\* subscription read for it that matches
RecordedAndDispatched ==
    /\ status = "delivered"
    /\ ToUpper(cur.Cccc) \in DOMAIN added
    /\ LastOf(added[ToUpper(cur.Cccc)]).Timestamp = now
    /\ LastOf(added[ToUpper(cur.Cccc)]).Text = cur.Text
    /\ LastOf(GetRecentMessages(cur.Cccc)) = LastOf(added[ToUpper(cur.Cccc)])
    /\ \A i \in 1..Len(subscriptions) :
          SendsTo(outbox, subscriptions[i].UserID) # {}
             <=> MatchesBulletin(subscriptions[i].Filters, info.productCategory,
                                 CarriedAlert(cur))

\* C12 as stated: a bulletin whose meteorological code, product code or alert
\* envelope is malformed is still stored in the recent history and sent to the
\* matching subscribers, and the failure is not fatal.
C12_AnyMalformedStillDispatched ==
    (Handled /\ (BadMeteoCode(cur) \/ BadProductCode(cur) \/ BadEnvelope(cur))) =>
        (RecordedAndDispatched /\ ~crashed)

\* C12 amended: a bulletin whose product code or alert envelope is malformed,
\* its meteorological code being well formed, is stored and sent to the matching
\* subscribers under the identity that is left: with a malformed product code
\* the data-type label of the meteorological code and the category Unknown,
\* with a malformed envelope no alert; a bulletin whose meteorological code is
\* malformed is dropped; none of the three stops the process.
C12_MalformedCodeOrEnvelope ==
    /\ ~crashed
    /\ (Handled /\ BadMeteoCode(cur)) => status = "dropped"
    /\ (Handled /\ ~BadMeteoCode(cur) /\ (BadProductCode(cur) \/ BadEnvelope(cur))) =>
          /\ RecordedAndDispatched
          /\ BadProductCode(cur) =>
                /\ info.productCategory = "Unknown"
                /\ \E r \in 1..Len(DataTable) :
                      /\ DataTable[r].T1 = SubSeq(cur.Ttaaii, 1, 1)
                      /\ info.productName = DataTable[r].DataType
                /\ ~CarriedAlert(cur) =>
                      LastOf(added[ToUpper(cur.Cccc)]).DataType = info.productName
          /\ BadEnvelope(cur) =>
                /\ info.capAlert.isNil
                /\ \A j \in 1..Len(outbox) :
                      HasPrefix(outbox[j].Text,
                                "[" \o cur.Cccc \o "] " \o info.productName \o "\nProduct: ")

C12_Witness ==
    /\ status = "delivered"
    /\ cur.Ttaaii = "NOUS43"
    /\ BadProductCode(cur)
    /\ info.productName = "Notices"
    /\ Len(outbox) > 0
    /\ now = 2
    /\ "10313" \in DOMAIN fed
    /\ fed["10313"][1] = 2

\* C13: a bulletin whose product identity does not decode is dropped, and only
\* it: receiving it appends nothing to the recent history, sends nothing and
\* leaves the subscriptions as they were, the ingestion unit is ready for the
\* next bulletin, and a bulletin that is delivered, after a dropped one too, is
\* stored and sent to the subscriptions that match it.
C13_DropIsFatalToThatBulletinOnly ==
    [][ /\ (pc = "idle" /\ now' = now + 1 /\ BadMeteoCode(cur')) =>
              /\ status' = "dropped"
              /\ pc' = "idle"
              /\ ~crashed'
              /\ recentMessages' = recentMessages
              /\ added' = added
              /\ outbox' = <<>>
              /\ sendErrors' = sendErrors
              /\ stationSubscribers' = stationSubscribers
        /\ (pc = "idle" /\ now' = now + 1 /\ ~BadMeteoCode(cur')) =>
              (status' = "processing" /\ pc' = "record")
        /\ (pc = "deliver" /\ pc' = "idle") =>
              /\ status' = "delivered"
              /\ LastOf(GetRecentMessages(cur.Cccc)).Timestamp = now
              /\ LastOf(GetRecentMessages(cur.Cccc)).Text = cur.Text
              /\ \A i \in 1..Len(subscriptions') :
                    SendsTo(outbox', subscriptions'[i].UserID) # {}
                       <=> MatchesBulletin(subscriptions'[i].Filters, info.productCategory,
                                           CarriedAlert(cur))
      ]_vars

C13_Witness ==
    /\ status = "delivered"
    /\ now = 2
    /\ "10313" \in DOMAIN fed
    /\ fed["10313"][1] = 4
    /\ Len(added["KARX"]) = 1
    /\ Len(outbox) > 0
    /\ DOMAIN stationSubscribers # {}

\* C14: a bulletin whose alert envelope does not decode is handled as one that
\* carries no alert: it is stored in the recent history under its product name,
\* the message is the one of a plain product, and of the subscriptions read for
\* it those with an all filter or a filter equal to its category are sent the
\* message while those with only a cap filter are not.
C14_BrokenEnvelopeIsNoAlert ==
    (status = "delivered" /\ BadEnvelope(cur)) =>
        /\ info.capAlert.isNil
        /\ LastOf(GetRecentMessages(cur.Cccc)).Text = cur.Text
        /\ LastOf(GetRecentMessages(cur.Cccc)).Timestamp = now
        /\ LastOf(GetRecentMessages(cur.Cccc)).DataType =
              IF info.productCategory # "Unknown"
              THEN info.productName \o " (" \o info.productCategory \o ")"
              ELSE info.productName
        /\ \A j \in 1..Len(outbox) :
              outbox[j].Text =
                 "[" \o cur.Cccc \o "] " \o info.productName \o "\nProduct: " \o cur.AwipsID
                     \o " | Issued: " \o cur.Issue \o "\n\n" \o cur.Text
        /\ \A i \in 1..Len(subscriptions) :
              LET filters == subscriptions[i].Filters
                  sent == SendsTo(outbox, subscriptions[i].UserID) # {}
              IN  /\ sent <=> \E k \in 1..Len(filters) :
                                 \/ filters[k] = "all"
                                 \/ ToLower(filters[k]) = ToLower(info.productCategory)
                  /\ filters = <<"cap">> => ~sent

C14_Witness ==
    /\ status = "delivered"
    /\ cur = BrokenEnvelopeBulletin
    /\ Len(subscriptions) = 3
    /\ Len(outbox) = 2
    /\ \E i \in 1..3 : subscriptions[i].Filters = <<"cap">>
    /\ \E i \in 1..3 :
          /\ subscriptions[i].Filters = <<"administrative">>
          /\ SendsTo(outbox, subscriptions[i].UserID) # {}

\* C15: the sink failing for one matching subscriber stops neither the sends of
\* the same bulletin to the other matching subscribers nor the bulletins that
\* follow: whichever sends fail, every user with a matching subscription is
\* sent the message once, the ingestion unit returns to wait for the next
\* bulletin, and the next bulletin is taken up as if nothing had failed.
C15_SinkFailureIsIsolated ==
    [][ /\ (pc = "deliver" /\ pc' = "idle") =>
              LET held == MapGet(stationSubscribers, ToUpper(cur.Cccc), <<>>)
              IN  /\ \A i \in 1..Len(held) :
                        MatchesBulletin(held[i].Filters, info.productCategory,
                                        CarriedAlert(cur))
                           => Cardinality(SendsTo(outbox', held[i].UserID)) = 1
                  /\ \A k \in (Len(sendErrors) + 1)..Len(sendErrors') :
                        SendsTo(outbox', sendErrors'[k].UserID) # {}
                  /\ status' = "delivered"
                  /\ ~crashed'
        /\ (pc = "idle" /\ now' = now + 1 /\ Len(sendErrors) > 0) =>
              /\ status' = IF BadMeteoCode(cur') THEN "dropped" ELSE "processing"
              /\ pc' = IF BadMeteoCode(cur') THEN "idle" ELSE "record"
      ]_vars

C15_Witness ==
    /\ status = "delivered"
    /\ now = 2
    /\ Len(outbox) = 2
    /\ Len(sendErrors) = 2
    /\ sendErrors[1].time = 1
    /\ sendErrors[2].time = 2
    /\ sendErrors[2].UserID = outbox[1].UserID
    /\ outbox[2].UserID # outbox[1].UserID

\* ------------------------------------------------------------- SpecSave

\* the mapping a pair of files holds for a reader that takes the primary file
\* when it parses, else the backup when it parses, else nothing
Parses(f) == ReadFile(f) = "ok" /\ ~JsonUnmarshal(f).err

Persisted(files) ==
    IF Parses(files[1]) THEN JsonUnmarshal(files[1]).val
    ELSE IF Parses(files[2]) THEN JsonUnmarshal(files[2]).val
    ELSE EmptyMap

\* Load runs in a process started after a kill, on a store nothing was put
\* into and on the files as the kill left them
LoadAfterCrash(c) ==
    /\ lastOp.name = "setPersistenceFile"
    /\ lastOp'.name = "load"
    /\ stationSubscribers = EmptyMap
    /\ ~subsNil
    /\ <<primaryFile, backupFile>> = c.left

\* C16: when the process is killed at a step of Save, the Load of the next
\* process yields the mapping that was persisted before that Save or the
\* mapping that Save was writing
C16_CrashLeavesOldOrNew ==
    [][\A c \in crashedSaves :
          LoadAfterCrash(c) =>
              stationSubscribers' \in {Persisted(c.old), c.seen.subs}]_vars
\* ------------------------------------------------------------- SpecStore

\* a file that is there and cannot be used: it cannot be read or does not parse
Unusable(f) == f.kind \in {"unreadable", "corrupt"}

\* C17: Load into a store that holds nothing takes the primary file when it
\* parses, the backup when the primary file cannot be used and the backup
\* parses, leaves the store empty when both fail, and never returns an error
C17_LoadFallbackOrder ==
    [][(lastOp'.name = "load" /\ filePath # "" /\ stationSubscribers = EmptyMap /\ ~subsNil) =>
          /\ lastOp'.ret # "error"
          /\ Parses(primaryFile) => stationSubscribers' = JsonUnmarshal(primaryFile).val
          /\ (Unusable(primaryFile) /\ Parses(backupFile)) =>
                 stationSubscribers' = JsonUnmarshal(backupFile).val
          /\ (Unusable(primaryFile) /\ ~Parses(backupFile)) =>
                 stationSubscribers' = EmptyMap]_vars
\* ------------------------------------------------------------- SpecSave

\* the users of a list of subscriptions, and the filters a user has in it
UsersOf(subs) == {subs[i].UserID : i \in 1..Len(subs)}

FilterSetOf(subs, u) ==
    UNION {{subs[i].Filters[j] : j \in 1..Len(subs[i].Filters)} :
              i \in {k \in 1..Len(subs) : subs[k].UserID = u}}

\* two mappings with the same stations, the same users per station and the
\* same set of filters per user and station
Equivalent(a, b) ==
    /\ DOMAIN a = DOMAIN b
    /\ \A s \in DOMAIN a \cap DOMAIN b :
          /\ UsersOf(a[s]) = UsersOf(b[s])
          /\ \A u \in UsersOf(a[s]) : FilterSetOf(a[s], u) = FilterSetOf(b[s], u)

C19_MutationEventuallySaved == unsaved ~> ~unsaved

C19_Witness ==
    /\ lastOp.name \in {"subscribe", "unsubscribe", "unsubscribeAll"}
    /\ filePath # ""
    /\ ~unsaved
    /\ lastSaved.some
    /\ lastSaved.subs = stationSubscribers
    /\ primaryFile = MapFile(stationSubscribers)
    /\ stationSubscribers # EmptyMap
\* ------------------------------------------------------------- SpecDebounce

\* a subscribe, an unsubscribe and an unsubscribeAll can each take their step
CanMutate ==
    /\ ENABLED SubscribeToStation("u1", "KARX", <<"all">>)
    /\ ENABLED UnsubscribeFromStation("u1", "karx")
    /\ ENABLED UnsubscribeFromAll("u1")

\* the autosave loop is not started, at its select, in Save, or has returned
LoopState ==
    CASE loopPc = "off" -> "never started"
      [] loopPc = "done" -> "stopped"
      [] loopPc = "save" -> "busy saving"
      [] OTHER -> "idle"

SaveFails(s) == ~saves[s].err /\ saves'[s].err

\* C21: a Save that fails changes neither the subscriptions nor the recent
\* history, reaches neither the ingestion unit nor a command, and leaves the
\* autosave loop at its select, where it takes the next signal or tick
C21_FailedSaveIsLoggedAndRetried ==
    /\ [][\A s \in Savers : SaveFails(s) =>
              /\ UNCHANGED << stationSubscribers, subsNil, recentMessages, autoSaveChan >>
              /\ UNCHANGED << crashed, lastOp, ingestVars, unsaved >>
              /\ s = "loop" => loopPc' = "select"]_vars
    /\ []((saves["loop"].err /\ loopPc = "select" /\ autoSaveChan = 1) => ENABLED LoopSignal)
    /\ []((saves["loop"].err /\ loopPc = "save") => saves["loop"].pc = "call")

C21_Witness ==
    /\ saves["loop"].err
    /\ saves["loop"].pc = "call"
    /\ unsaved
    /\ stationSubscribers # EmptyMap
    /\ recentMessages # EmptyMap
    /\ primaryFile = MissingFile
\* ------------------------------------------------------------- SpecStore

\* the entries userID has in a list, and in a mapping
EntriesOf(subs, userID) == Cardinality({i \in 1..Len(subs) : subs[i].UserID = userID})

EntriesIn(m, userID) == SumOver(DOMAIN m, [s \in DOMAIN m |-> EntriesOf(m[s], userID)])

\* the entries of everyone but userID, station by station, in their order
OthersIn(m, userID) ==
    LET left == [s \in DOMAIN m |-> WithoutUser(m[s], userID)]
    IN  [s \in {k \in DOMAIN m : Len(left[k]) # 0} |-> left[s]]

C29_UnsubscribeAllRemovesAllOfUser ==
    [][lastOp'.name = "unsubscribeAll" =>
          LET u == lastOp'.userID
          IN  /\ EntriesIn(stationSubscribers', u) = 0
              /\ lastOp'.count = EntriesIn(stationSubscribers, u)
              /\ OthersIn(stationSubscribers', u) = OthersIn(stationSubscribers, u)
              /\ autoSaveChan' = IF lastOp'.count > 0 THEN 1 ELSE autoSaveChan
              /\ StationsIn(stationSubscribers', u) = {}]_vars

C29_Witness ==
    /\ lastOp.name = "unsubscribeAll"
    /\ lastOp.userID = "u1"
    /\ lastOp.count = 2
    /\ GetUserStationSubscriptions("u1") = {}
    /\ GetUserStationSubscriptions("u3") = {"PAFC"}
    /\ autoSaveChan = 1
\* ------------------------------------------------------------- SpecKeys

\* C30: every key of the subscription map and of the recent-history map is an
\* upper-cased station code
C30_KeysAreUpperCased ==
    \A k \in (DOMAIN stationSubscribers) \cup (DOMAIN recentMessages) : k = ToUpper(k)
\* ------------------------------------------------------------- SpecCommands

\* a station code of exactly 4 characters whose first is K or P in either
\* case, and a filter token that is all, cap or a category in any case
ValidStation(code) == Len(code) = 4 /\ CharAt(code, 1) \in {"K", "k", "P", "p"}

ValidToken(f) ==
    \E v \in {"all", "cap"} \cup GetAllCategories : ToLower(v) = ToLower(f)

AllValid(filters) == \A i \in 1..Len(filters) : ValidToken(filters[i])

\* C27: a subscribe command whose station code or one of whose filter tokens
\* is invalid is answered with a message and changes neither the subscription
\* map nor the recent history nor the save signal; only a command whose
\* station code and tokens are all valid reaches the store
C27_InvalidSubscribeIsRejected ==
    [][/\ lastOp'.name = "subscribe" =>
             ValidStation(lastOp'.stationCode) /\ AllValid(lastOp'.filters)
       /\ (lastOp'.name = "reply" /\ ingestVars' = ingestVars
              /\ lastOp'.ret \in {"Invalid filter(s)", "Invalid station code"}) =>
             /\ ~ValidStation(lastOp'.stationCode) \/ ~AllValid(lastOp'.filters)
             /\ UNCHANGED << stationSubscribers, subsNil, recentMessages, autoSaveChan,
                             unsaved >>]_vars

C27_Witness ==
    /\ lastOp.name = "reply"
    /\ lastOp.ret = "Invalid station code"
    /\ lastOp.stationCode = "XARX"
    /\ lastOp.userID = "u2"
    /\ GetUserStationSubscriptions("u2") = {"PAFC"}
    /\ recentMessages # EmptyMap

\* ------------------------------------------------------------- SpecShutdown

\* C22: when the shutdown path has completed, a reader of the persisted file
\* gets the final mapping of the store, mutations whose debounced save was still
\* pending included
C22_ShutdownSavesFinalMapping ==
    (mainPc = "exit0" /\ filePath # "") =>
        Persisted(<< primaryFile, backupFile >>) = stationSubscribers

\* -------------------------------------------------------------- SpecSession

\* C23: at startup the primary site is probed first and the secondary site
\* only if the connect to the primary site failed; when either probe succeeded
\* the session is configured for that site; when both failed the startup ends
\* with a fatal error, no session is started and nothing else is probed
C23_PrimaryThenSecondary ==
    mainPc # "new" =>
        /\ Len(probes) <= 2
        /\ probes # <<>> => probes[1].site = NWWSCollegePark
        /\ Len(probes) = 2 => ~probes[1].ok /\ probes[2].site = NWWSBoulder
        /\ \A i \in 1..Len(probes) : probes[i].ok => site = probes[i].site
        /\ (Len(probes) = 2 /\ ~probes[2].ok) =>
              /\ mainPc = "fatal"
              /\ fatalMsg = "Failed to initialize seabird client"
              /\ feedUnit = "idle"
              /\ commandUnit = "idle"
              /\ connects = 0

\* C24: a failure to join the room ends the process only at the first connect
\* of the session; a join that fails after the transport has reconnected does
\* not end it
C24_JoinFailureFatalOnlyAtStartup ==
    (mainPc = "fatal" /\ fatalMsg = "Failed to join Multi-user Chat") => connects <= 1

\* C26: after the signal the process exits only when the feed unit and the
\* command unit, once started, have both returned
C26_ExitsAfterBothUnitsReturned ==
    (mainPc = "exit0" /\ feedUnit # "idle") =>
        feedUnit = "returned" /\ commandUnit = "returned"

\* --------------------------------------------------------------- SpecRejoin

\* C25: after an error presence of the room the join is attempted again and
\* again, so that when the room stays joinable from some time on the session
\* is an occupant of the room again
C25_RejoinsUntilJoined ==
    (<>[]joinable) => ((presences > 0) ~> (room = "joined"))

\* C40: at any time at most one goroutine of handlePresence is sleeping or
\* about to join, however many error presences the room has sent
C40_AtMostOnePendingRejoin == Len(rejoins) <= 1

\* ---------------------------------------------------------------- SpecLocks

\* unit u holds a lock
HoldsMu(u) == mu.writer = u \/ u \in mu.readers

Holds(u) == HoldsMu(u) \/ sequenceMu = u

\* unit u is in a call of Lock or RLock that has not returned
AwaitsLock(u) == at[u] \in {"seqLock", "addLock", "mutLock", "getRLock", "readRLock", "saveRLock"}

\* C38: the three units never deadlock. sm.mu has one writer and no reader, or
\* readers only; no unit holds sequenceMu together with sm.mu; the autosave
\* loop holds no lock at its select and a unit that holds a lock never waits,
\* neither for a lock nor for the autosave channel; whenever a unit waits for
\* a lock some unit can take a step
C38_NoDeadlock ==
    /\ mu.writer # "" => mu.readers = {}
    /\ \A u \in Units : ~(sequenceMu = u /\ HoldsMu(u))
    /\ at["loop"] = "idle" => ~Holds("loop")
    /\ \A u \in Units : Holds(u) => ENABLED UnitStep(u)
    /\ (\E u \in Units : AwaitsLock(u)) =>
          \E v \in Units : (Holds(v) \/ AwaitsLock(v)) /\ ENABLED UnitStep(v)

\* the command unit holds sm.mu for writing with the autosave channel full,
\* while the ingestion unit and the autosave loop wait for sm.mu
C38_Witness ==
    /\ mu.writer = "command"
    /\ at["command"] = "mutHeld"
    /\ autoSaveChan = 1
    /\ at["ingest"] = "addLock"
    /\ at["loop"] = "saveRLock"

\* ----------------------------------------------------------------- SpecHeld

C34_RecentNotPersisted ==
    [][/\ (lastSaved'.some /\ lastSaved' # lastSaved) =>
              primaryFile' = MapFile(lastSaved'.subs)
       /\ (restarts > 0 /\ lastOp.name = "setPersistenceFile" /\ lastOp'.name = "load") =>
              /\ DOMAIN recentMessages' = DOMAIN added
              /\ \A station \in {"KARX", "karx", "PAFC"} :
                     MapGet(recentMessages', ToUpper(station), <<>>) =
                        LastN(MapGet(added, ToUpper(station), <<>>), MaxRecentMessages)
              /\ (lastSaved.some /\ stationSubscribers = EmptyMap /\ ~subsNil) =>
                     stationSubscribers' = lastSaved.subs]_vars

\* a process that had recorded a bulletin and saved a subscription was killed;
\* the next process has loaded the subscription and has no recent history
C34_Witness ==
    /\ restarts > 0
    /\ lastOp.name = "load"
    /\ now > 0
    /\ added = EmptyMap
    /\ \A station \in {"KARX", "PAFC"} : GetRecentMessages(station) = <<>>
    /\ lastSaved.some
    /\ stationSubscribers = lastSaved.subs
    /\ "PAFC" \in DOMAIN stationSubscribers

\* ---------------------------------------------------------------- SpecCodes

\* the bounds of what is left of s without the white space around it: the
\* first and the last position, the last below the first when nothing is left
TrimBounds(s) ==
    { b \in (1..(Len(s) + 1)) \X (0..Len(s)) :
        /\ b[1] <= b[2] + 1
        /\ \A k \in 1..(b[1] - 1) : CharAt(s, k) \in WhiteSpace
        /\ \A k \in (b[2] + 1)..Len(s) : CharAt(s, k) \in WhiteSpace
        /\ b[1] <= b[2] =>
              (CharAt(s, b[1]) \notin WhiteSpace /\ CharAt(s, b[2]) \notin WhiteSpace) }

\* t is s without the white space around it
IsTrimOf(t, s) ==
    \E b \in TrimBounds(s) : t = IF b[1] > b[2] THEN "" ELSE SubSeq(s, b[1], b[2])

\* the length of s without the white space around it
TrimmedLen(s) == CHOOSE n \in 0..Len(s) : \E b \in TrimBounds(s) : n = b[2] - b[1] + 1

\* C35: a product code whose length without the surrounding white space is 3
\* or more parses into its first 3 characters and the rest, which may be
\* empty; a shorter one fails; a prefix the catalog does not have is no error,
\* its display name is the prefix and its category Unknown
C35_ProductCodeParse ==
    decoded.done =>
        LET a == decoded.awips
        IN  IF TrimmedLen(ext.AwipsID) >= 3
            THEN /\ ~a.err
                 /\ Len(a.NNN) = 3
                 /\ IsTrimOf(a.NNN \o a.XXX, ext.AwipsID)
                 /\ IF a.NNN \in DOMAIN CommonProducts
                    THEN /\ decoded.name = CommonProducts[a.NNN].Name
                         /\ decoded.category = CommonProducts[a.NNN].Category
                    ELSE /\ decoded.name = a.NNN
                         /\ decoded.category = "Unknown"
            ELSE a.err

C35_Witness ==
    /\ decoded.done
    /\ ext.AwipsID = "ZZZARX"
    /\ decoded.awips = [err |-> FALSE, NNN |-> "ZZZ", XXX |-> "ARX"]
    /\ decoded.name = "ZZZ"
    /\ decoded.category = "Unknown"

\* C36: a meteorological code of 6 characters parses into five fields of 1, 1,
\* 1, 1 and 2 characters that follow each other in the code; a code of any
\* other length fails and gives no fields
C36_MeteoCodeParse ==
    decoded.done =>
        LET w == decoded.wmo
        IN  IF Len(ext.Ttaaii) = 6
            THEN /\ ~w.err
                 /\ Len(w.id.T1) = 1 /\ Len(w.id.T2) = 1
                 /\ Len(w.id.A1) = 1 /\ Len(w.id.A2) = 1
                 /\ Len(w.id.II) = 2
                 /\ w.id.T1 \o w.id.T2 \o w.id.A1 \o w.id.A2 \o w.id.II = ext.Ttaaii
            ELSE w.err /\ w.id = NoProductID

C36_Witness ==
    /\ decoded.done
    /\ ext.Ttaaii = "WFUS53"
    /\ decoded.wmo = [err |-> FALSE,
                      id |-> [T1 |-> "W", T2 |-> "F", A1 |-> "U", A2 |-> "S", II |-> "53"]]

\* ---------------------------------------------------------------- SpecFiles

\* C31: every stored subscription has at least one filter: a subscribe without
\* filters stores the single token cap, and nothing, Load included, leaves an
\* entry without filters
C31_FiltersNeverEmpty ==
    /\ \A station \in DOMAIN stationSubscribers :
          \A i \in 1..Len(stationSubscribers[station]) :
             Len(stationSubscribers[station][i].Filters) > 0
    /\ (lastOp.name = "subscribe" /\ lastOp.ret = "" /\ lastOp.filters = <<>>) =>
          LET subs == GetStationSubscriptions(lastOp.stationCode)
          IN  subs[Len(subs)] = [UserID |-> lastOp.userID, Filters |-> <<"cap">>]

\* C32: a subscribe changes the entry of its user under the upper-cased
\* station only: the entries of the other users, the other stations and the
\* recent history are as before, and the entry it stores has the tokens given,
\* lower-cased and in their order (the token cap when none was given)
C32_SubscribeChangesOnlyItsEntry ==
    [][(lastOp'.name = "subscribe" /\ lastOp'.ret = "" /\ ingestVars' = ingestVars) =>
          LET u == lastOp'.userID
              code == ToUpper(lastOp'.stationCode)
              given == lastOp'.filters
              after == MapGet(stationSubscribers', code, <<>>)
          IN  /\ OthersIn(stationSubscribers', u) = OthersIn(stationSubscribers, u)
              /\ \A s \in (DOMAIN stationSubscribers) \ {code} :
                     /\ s \in DOMAIN stationSubscribers'
                     /\ stationSubscribers'[s] = stationSubscribers[s]
              /\ DOMAIN stationSubscribers' = (DOMAIN stationSubscribers) \cup {code}
              /\ recentMessages' = recentMessages
              /\ Len(after) > 0
              /\ after[Len(after)].UserID = u
              /\ IF given = <<>>
                 THEN after[Len(after)].Filters = <<"cap">>
                 ELSE /\ Len(after[Len(after)].Filters) = Len(given)
                      /\ \A i \in 1..Len(given) :
                            after[Len(after)].Filters[i] = ToLower(given[i])]_vars

C32_Witness ==
    /\ lastOp.name = "subscribe"
    /\ lastOp.userID = "u1"
    /\ lastOp.stationCode = "karx"
    /\ lastOp.filters = <<"Warning", "CAP">>
    /\ "KARX" \in DOMAIN stationSubscribers
    /\ stationSubscribers["KARX"] =
          << [UserID |-> "u2", Filters |-> <<"cap">>],
             [UserID |-> "u1", Filters |-> <<"warning", "cap">>] >>
    /\ "PAFC" \in DOMAIN stationSubscribers
    /\ "KARX" \in DOMAIN recentMessages

\* C39: when Load has returned without an error, whatever the files held, the
\* subscribe that follows completes and its entry is in the store
C39_StoreUsableAfterLoad ==
    [][(lastOp.name = "load" /\ lastOp.ret = "nil" /\ lastOp'.name = "subscribe") =>
          /\ ~crashed'
          /\ lastOp'.ret = ""
          /\ lastOp'.userID \in
                UsersOf(MapGet(stationSubscribers', ToUpper(lastOp'.stationCode), <<>>))]_vars

\* ------------------------------------------------------------- SpecDebounce

\* a call of Save is writing the temporary file or is about to rename it
InTmpStage(s) == saves[s].pc \in {"write", "rename"}

\* the primary file is a temporary file that os.WriteFile had opened and not
\* written in full when it was renamed
PartialPrimary == primaryFile = CorruptFile

\* C37: the Save of autoSaveLoop and the Save of Close never are both between
\* the opening of the temporary file and its rename, and the primary file
\* never is a temporary file that was renamed before its write was complete
C37_SavesDoNotOverlap ==
    /\ ~(InTmpStage("loop") /\ InTmpStage("close"))
    /\ ~PartialPrimary
====
